---- MODULE Spec2Model ----
(***************************************************************************)
(* Ingestion-to-lead pipeline of the social listening system:              *)
(*   - the deduplicating ingest sink (db.check_duplicate/insert_raw_post)  *)
(*     as driven by the source adapters,                                   *)
(*   - the analysis pipeline (analysis.pipeline.run_pipeline) with the     *)
(*     sentiment pre-filter, the classification oracle and the lead        *)
(*     promoter (db.insert_analysis / db.insert_lead / _notify_lead),      *)
(*   - the settings table (db.get_settings / db.update_setting),           *)
(*   - the classification stage (analysis.classifier.classify_post),       *)
(*   - the task progress tracker (task_manager.TaskManager) and the        *)
(*     dashboard handlers that start sweeps (dashboard.app),               *)
(*   - the collection sweep over the sources (main.cmd_collect).           *)
(*                                                                         *)
(* Numbers: sentiment scores and sentiment thresholds are in units of      *)
(* 1/10000, confidences and confidence thresholds in units of 1/100.       *)
(* Texts are tokens: "" is the empty string, " " a whitespace-only string, *)
(* every other token a string with visible characters.                     *)
(***************************************************************************)
EXTENDS Integers, Sequences, FiniteSets, Bags, TLC

\* ---------------------------------------------------------------- bounds
MaxLimit == 2          \* analyze(limit) is called with limit in 1..MaxLimit
MaxTotal == 5          \* start_task/update_progress are called with 0..MaxTotal
MaxBatch == 3          \* a source delivers 1..MaxBatch items to an adapter's collect

\* classify_post(..., max_retries: int = 3)
DefaultMaxRetries == 3

\* api_collect: start_task("collect", total=5, ...)
CollectTotal == 5

Collectors == {"c1", "c2"}
Workers    == {"w1", "w2"}

\* (platform, post_id) pairs the sources deliver
Keys == { <<"reddit", "p1">>, <<"reddit", "p2">>, <<"devto", "p1">> }

\* (title, content) pairs the sources deliver
TextVariants == { <<"", "neg">>, <<"", "pos">>, <<"neg", " ">>, <<"", "">> }

Items == { [platform |-> k[1], post_id |-> k[2], title |-> t[1], content |-> t[2]] :
             k \in Keys, t \in TextVariants }

NoPost == [platform |-> "none", post_id |-> "none", title |-> "", content |-> ""]

\* payloads the classification oracle answers with
OracleResults ==
    { [is_frustrated |-> TRUE,  confidence |-> 80, reason |-> "llm", suggested_service |-> "svc"],
      [is_frustrated |-> TRUE,  confidence |-> 70, reason |-> "llm", suggested_service |-> "svc"],
      [is_frustrated |-> FALSE, confidence |-> 90, reason |-> "llm", suggested_service |-> "none"] }

TaskTypes == {"collect", "analyze"}

VARIABLES
    raw_posts,        \* table raw_posts, in collected_at order; row id = index
    analyzed_posts,   \* table analyzed_posts, in insertion order; row id = index
    leads,            \* table leads, in insertion order; row id = index
    settings,         \* table settings
    webhook_calls,    \* bag of lead ids POSTed to the notification sink
    webhook_failed,   \* lead ids whose POST raised or timed out
    cpc, cpost, cdup, cstored, cret,     \* one insert_raw_post call per collector
    pc, via, snap, batch, idx, stats, raised, \* one run_pipeline call per worker
    lead_ret,         \* result of the last direct insert_lead call
    tasks,            \* TaskManager.tasks of the dashboard process
    cli_tasks,        \* TaskManager.tasks of the process of each cmd_analyze run
    cl,               \* the last classify_post call: its arguments and what it returned
    csweep,           \* the collection sweep: its position and the stats it gathered
    tcall,            \* the last direct call of a TaskManager method
    arun,             \* the collection run of one source adapter
    poll,             \* the last get_status call of a poller and what it returned
    trace,            \* the classify_post calls of the last iteration of run_pipeline
    clobbered         \* history: the analyze entry was restarted by a request that came
                      \* while another analyze sweep of the dashboard was in flight

store_vars     == <<raw_posts, analyzed_posts, leads, settings, webhook_calls, webhook_failed>>
collector_vars == <<cpc, cpost, cdup, cstored, cret>>
worker_vars    == <<pc, via, snap, batch, idx, stats, raised>>
tracker_vars   == <<tasks, cli_tasks>>
vars == <<raw_posts, analyzed_posts, leads, settings, webhook_calls, webhook_failed,
          cpc, cpost, cdup, cstored, cret,
          pc, via, snap, batch, idx, stats, raised, lead_ret,
          tasks, cli_tasks, cl, csweep, tcall, arun, poll, trace, clobbered>>

\* ------------------------------------------------------------ text helpers
\* str.strip()
strip(t) == IF t = " " THEN "" ELSE t

\* Python's  a or b  on strings
StrOr(a, b) == IF a = "" THEN b ELSE a

\* f"{title} {content}".strip() is empty
FullTextBlank(post) == strip(post.title) = "" /\ strip(post.content) = ""

Range(s) == { s[i] : i \in DOMAIN s }

RECURSIVE Take(_, _)
Take(s, n) == IF n <= 0 \/ s = <<>> THEN <<>> ELSE <<Head(s)>> \o Take(Tail(s), n - 1)

\* ------------------------------------------------------------------ settings
DEFAULT_SETTINGS == [sentiment_threshold  |-> -500,
                     confidence_threshold |-> 80,
                     n8n_webhook_url      |-> ""]

get_settings(tbl) == tbl

\* -------------------------------------------------------------- task tracker
\* A message is the text of an f-string: a fixed prefix, the text, and the
\* numbers formatted into it.
Msg(text, args) == [prefix |-> "", text |-> text, args |-> args]

\* None or "" (falsy in  if message: )
NoMessage == Msg("", <<>>)

\* a result payload that is None
NoResult == [none |-> TRUE]

\* the value of tasks.get(type): present is whether the key is in the dict,
\* has_result whether the entry has the key "result"
NoTask == [present |-> FALSE, status |-> "idle", message |-> NoMessage,
           current |-> 0, total |-> 0, percent |-> 0,
           has_result |-> FALSE, result |-> NoResult]

EmptyRegistry == [t \in TaskTypes |-> NoTask]

\* Python's round(num / den) for num >= 0, den > 0: to nearest, ties to even
\* (the float quotient of update_progress is exact to the nearest integer for
\* the totals used here)
PyRound(num, den) ==
    LET q == num \div den
        r == num % den
    IN  IF 2 * r < den THEN q
        ELSE IF 2 * r > den THEN q + 1
        ELSE IF q % 2 = 0 THEN q ELSE q + 1

\* start_task that updates the entry in place: the keys it does not write
\* (result) stay
start_task_keep(reg, task_type, total, message) ==
    [reg EXCEPT ![task_type].present = TRUE,
                ![task_type].status = "running",
                ![task_type].message = message,
                ![task_type].current = 0,
                ![task_type].total = total,
                ![task_type].percent = 0]

\* TaskManager.start_task
start_task(reg, task_type, total, message) ==
    [reg EXCEPT ![task_type] =
        [present |-> TRUE, status |-> "running", message |-> message,
         current |-> 0, total |-> total, percent |-> 0,
         has_result |-> FALSE, result |-> NoResult]]

\* update_progress that never recomputes percent
update_progress_stale(reg, task_type, current, message) ==
    IF reg[task_type].present
      THEN [reg EXCEPT ![task_type].current = current,
                       ![task_type].message = IF message # NoMessage THEN message ELSE @]
      ELSE reg

\* TaskManager.update_progress
update_progress(reg, task_type, current, message) ==
    IF reg[task_type].present
      THEN [reg EXCEPT ![task_type].current = current,
                       ![task_type].message = IF message # NoMessage THEN message ELSE @,
                       ![task_type].percent = IF reg[task_type].total > 0
                                                THEN PyRound(current * 100, reg[task_type].total)
                                                ELSE 0]
      ELSE reg

\* complete_task that leaves percent where the last update put it
complete_task_nopercent(reg, task_type, message, result) ==
    IF reg[task_type].present
      THEN [reg EXCEPT ![task_type].status = "completed",
                       ![task_type].message = message,
                       ![task_type].has_result = TRUE,
                       ![task_type].result = result]
      ELSE reg

\* TaskManager.complete_task
complete_task(reg, task_type, message, result) ==
    IF reg[task_type].present
      THEN [reg EXCEPT ![task_type].status = "completed",
                       ![task_type].message = message,
                       ![task_type].percent = 100,
                       ![task_type].has_result = TRUE,
                       ![task_type].result = result]
      ELSE reg

\* fail_task that only logs the error
fail_task_silent(reg, task_type, error) == reg

\* TaskManager.fail_task: message = f"Error: {error}"
fail_task(reg, task_type, error) ==
    IF reg[task_type].present
      THEN [reg EXCEPT ![task_type].status = "failed",
                       ![task_type].message = [prefix |-> "Error: ", text |-> error, args |-> <<>>]]
      ELSE reg

\* get_status that creates the entry it was asked for (tasks.setdefault)
get_status_setdefault(reg, task_type) ==
    IF task_type = "None" THEN [reg |-> reg, whole |-> TRUE, tasks |-> reg, task |-> NoTask]
    ELSE LET made == IF reg[task_type].present THEN reg
                     ELSE [reg EXCEPT ![task_type].present = TRUE]
         IN  [reg |-> made, whole |-> FALSE, tasks |-> EmptyRegistry, task |-> made[task_type]]

\* TaskManager.get_status: reg is the registry after the call; the value
\* returned is the registry (tasks; task_type None) or tasks.get(task_type,
\* {"status": "idle"}) (task).  Neither is copied.
get_status(reg, task_type) ==
    IF task_type = "None" THEN [reg |-> reg, whole |-> TRUE, tasks |-> reg, task |-> NoTask]
    ELSE [reg |-> reg, whole |-> FALSE, tasks |-> EmptyRegistry, task |-> reg[task_type]]

\* no poller holds a status; live: the value held is an object of the
\* registry (the registry itself, or the dict of an entry that no start_task
\* has replaced since), ret: the value as it was when get_status returned
NoPoll == [held |-> FALSE, task_type |-> "None", live |-> FALSE,
           ret |-> [whole |-> FALSE, tasks |-> EmptyRegistry, task |-> NoTask]]

\* no TaskManager method was called directly
NoTrackerCall == [op |-> "none", task_type |-> "none", total |-> 0, current |-> 0,
                  message |-> NoMessage, result |-> NoResult, error |-> "",
                  before |-> NoTask]

\* direct calls of the TaskManager methods on the dashboard's registry; before
\* is the entry of the task type when the call was made
StartTask(types, totals) ==
    \E t \in types, total \in totals :
       /\ tasks' = start_task(tasks, t, total, Msg("Started", <<>>))
       /\ tcall' = [NoTrackerCall EXCEPT !.op = "start", !.task_type = t, !.total = total,
                                         !.message = Msg("Started", <<>>), !.before = tasks[t]]

\* an update that puts the task back to running
UpdateProgress_restarts(types, currents) ==
    \E t \in types, current \in currents, message \in {NoMessage, Msg("Working", <<>>)} :
       /\ tasks' = [update_progress(tasks, t, current, message) EXCEPT ![t].status = "running"]
       /\ tcall' = [NoTrackerCall EXCEPT !.op = "update", !.task_type = t, !.current = current,
                                         !.message = message, !.before = tasks[t]]

UpdateProgress(types, currents) ==
    \E t \in types, current \in currents, message \in {NoMessage, Msg("Working", <<>>)} :
       /\ tasks' = update_progress(tasks, t, current, message)
       /\ tcall' = [NoTrackerCall EXCEPT !.op = "update", !.task_type = t, !.current = current,
                                         !.message = message, !.before = tasks[t]]

CompleteTask(types) ==
    \E t \in types, result \in {NoResult, [none |-> FALSE]} :
       /\ tasks' = complete_task(tasks, t, Msg("Completed", <<>>), result)
       /\ tcall' = [NoTrackerCall EXCEPT !.op = "complete", !.task_type = t, !.result = result,
                                         !.message = Msg("Completed", <<>>), !.before = tasks[t]]

FailTask(types) ==
    \E t \in types :
       /\ tasks' = fail_task(tasks, t, "boom")
       /\ tcall' = [NoTrackerCall EXCEPT !.op = "fail", !.task_type = t, !.error = "boom",
                                         !.before = tasks[t]]

\* api_task_status line 231: a poller calls get_status
GetStatus(types) ==
    /\ \E t \in types :
         LET out == get_status(tasks, t) IN
         /\ tasks' = out.reg
         /\ poll' = [held |-> TRUE, task_type |-> t,
                     live |-> out.whole \/ out.reg[t].present,
                     ret |-> [whole |-> out.whole, tasks |-> out.tasks, task |-> out.task]]
         /\ tcall' = [NoTrackerCall EXCEPT !.op = "get_status", !.task_type = t,
                                           !.before = IF t = "None" THEN NoTask ELSE tasks[t]]
    /\ UNCHANGED <<store_vars, collector_vars, worker_vars, lead_ret, cli_tasks, cl, csweep,
                   arun, trace, clobbered>>

\* any one direct call of a method that writes; start_task puts a new dict
\* into the registry, so a poller that holds the old one holds it alone
TrackerCall(types, totals, currents) ==
    /\ \/ StartTask(types, totals)
       \/ UpdateProgress(types, currents)
       \/ CompleteTask(types)
       \/ FailTask(types)
    /\ poll' = IF tcall'.op = "start" /\ tcall'.task_type = poll.task_type
                 THEN [poll EXCEPT !.live = FALSE] ELSE poll
    /\ UNCHANGED <<store_vars, collector_vars, worker_vars, lead_ret, cli_tasks, cl, csweep,
                   arun, trace, clobbered>>

\* ----------------------------------------------------------------- raw posts
RowsWithKey(rows, platform, post_id) ==
    { i \in DOMAIN rows : rows[i].platform = platform /\ rows[i].post_id = post_id }

check_duplicate_never(rows, platform, post_id) == FALSE

check_duplicate(rows, platform, post_id) ==
    \E i \in DOMAIN rows : rows[i].platform = platform /\ rows[i].post_id = post_id

RawUniqueOff(rows, post) == FALSE

\* the store's UNIQUE (platform, post_id) constraint on raw_posts
RawUniqueViolation(rows, post) ==
    RowsWithKey(rows, post.platform, post.post_id) # {}

\* insert_raw_post, first half: the duplicate pre-check (one store read).
\* The adapter hands over only items whose title+content is not blank.
InsertRawPost_Check(c, item) ==
    /\ cpc[c] = "idle"
    /\ ~FullTextBlank(item)
    /\ cpc'     = [cpc EXCEPT ![c] = "checked"]
    /\ cpost'   = [cpost EXCEPT ![c] = item]
    /\ cdup'    = [cdup EXCEPT ![c] = check_duplicate(raw_posts, item.platform, item.post_id)]
    /\ cstored' = [cstored EXCEPT ![c] = RowsWithKey(raw_posts, item.platform, item.post_id) # {}]
    /\ cret'    = [cret EXCEPT ![c] = "init"]
    /\ UNCHANGED <<store_vars, worker_vars, lead_ret, tracker_vars, cl, csweep, tcall, arun, poll, trace, clobbered>>

\* insert_raw_post, second half: return None on a duplicate, else insert
\* (one store write, which the store rejects on a uniqueness violation).
InsertRawPost_Insert(c) ==
    /\ cpc[c] = "checked"
    /\ cpc' = [cpc EXCEPT ![c] = "idle"]
    /\ IF cdup[c]
         THEN /\ cret' = [cret EXCEPT ![c] = "dup"]
              /\ UNCHANGED raw_posts
         ELSE IF RawUniqueViolation(raw_posts, cpost[c])
         THEN /\ cret' = [cret EXCEPT ![c] = "raised"]
              /\ UNCHANGED raw_posts
         ELSE /\ cret' = [cret EXCEPT ![c] = "row"]
              /\ raw_posts' = Append(raw_posts, cpost[c])
    /\ UNCHANGED <<analyzed_posts, leads, settings, webhook_calls, webhook_failed,
                   cpost, cdup, cstored, worker_vars, lead_ret, tracker_vars, cl, csweep, tcall, arun, poll, trace, clobbered>>

\* db.update_setting(key, value) from the dashboard (PUT /api/settings)
update_setting(sts, cts, urls) ==
    /\ \E st \in sts, ct \in cts, url \in urls :
          \/ settings' = [settings EXCEPT !.sentiment_threshold = st]
          \/ settings' = [settings EXCEPT !.confidence_threshold = ct]
          \/ settings' = [settings EXCEPT !.n8n_webhook_url = url]
    /\ UNCHANGED <<raw_posts, analyzed_posts, leads, webhook_calls, webhook_failed,
                   collector_vars, worker_vars, lead_ret, tracker_vars, cl, csweep, tcall, arun, poll, trace, clobbered>>

\* ------------------------------------------------------------ sentiment
\* analysis.sentiment.get_sentiment_score: the compound score of the
\* sentiment oracle for a text (the oracle is a function of the text)
get_sentiment_score(text) ==
    CASE text = "neg" -> -6124
      [] text = "pos" -> 2023
      [] OTHER        -> 0

\* a filter that lets every text through
passes_sentiment_filter_off(text, threshold) == TRUE

passes_sentiment_filter_strict(text, threshold) ==
    get_sentiment_score(text) < threshold

passes_sentiment_filter(text, threshold) ==
    get_sentiment_score(text) <= threshold

\* f"{sentiment_score:.3f}": the score rounded to three decimals, in 1/1000
Fmt3(score) == (score + 5) \div 10

\* ------------------------------------------------------------- classifier
\* What the oracle does on one call: the call raises (transport/API error),
\* or it returns a text.  A text is a body, bare or wrapped in a markdown code
\* fence: "block" is ```json\n<body>\n```, "inline" is ```<body>``` on one line.
\* A body is not JSON ("garbage"), a JSON array, or a JSON object with the
\* payload fields; is_frustrated is the JSON literal true or false, the JSON
\* string "false" (written 'false'), or absent.
NoPayload == [is_frustrated |-> "absent", confidence |-> 0, reason |-> "", suggested_service |-> "none"]

TransportError == [kind |-> "error", fence |-> "none", body |-> "garbage", payload |-> NoPayload]

TextResponse(fence, body, payload) ==
    [kind |-> "text", fence |-> fence, body |-> body, payload |-> payload]

\* classify_post lines 52-56: the text that reaches json.loads.  A block
\* fence is removed; of an inline fence only the closing one is, the opening
\* one stays ("open").
strip_fence(r) ==
    CASE r.fence = "block"  -> [r EXCEPT !.fence = "none"]
      [] r.fence = "inline" -> [r EXCEPT !.fence = "open"]
      [] OTHER              -> r

\* json.loads(raw_text) returns a value
json_loads_ok(text) == text.fence = "none" /\ text.body \in {"object", "array"}

\* bool(result.get("is_frustrated", False))
PyBool(v) == v \in {"true", "'false'"}

\* lines 61-66: the coerced fields of a parsed object; confidences are
\* numbers, which float() leaves as they are
coerce(payload) ==
    [is_frustrated     |-> PyBool(payload.is_frustrated),
     confidence        |-> payload.confidence,
     reason            |-> payload.reason,
     suggested_service |-> payload.suggested_service]

\* lines 81-86
SafeDefault == [is_frustrated |-> FALSE, confidence |-> 0,
                reason |-> "Classification failed after retries",
                suggested_service |-> "none"]

\* one pass of the try block returns a result: the call returned a text that
\* parses to an object (result.get raises on an array)
attempt_returns(r) ==
    /\ r.kind = "text"
    /\ json_loads_ok(strip_fence(r))
    /\ strip_fence(r).body = "object"

\* a backoff that also sleeps after the last attempt
backoff_always(waits, attempt, max_retries) == Append(waits, 2^attempt)

\* classify_post lines 74-77: sleep 2 ** attempt seconds unless the attempt
\* was the last one; waits is the list of the sleeps made
backoff(waits, attempt, max_retries) ==
    IF attempt < max_retries - 1 THEN Append(waits, 2^attempt) ELSE waits

\* the retry loop that goes on to the next attempt whatever the response is
RECURSIVE classify_attempt_nostop(_, _, _, _)
classify_attempt_nostop(script, max_retries, attempt, waits) ==
    IF attempt >= max_retries
      THEN [raised |-> FALSE, result |-> SafeDefault, calls |-> attempt, waits |-> waits]
      ELSE classify_attempt_nostop(script, max_retries, attempt + 1,
                backoff(waits, attempt, max_retries))

\* classify_post lines 38-86, from attempt number attempt on: script[i] is
\* what the oracle does on its i-th call, waits the sleeps made so far
RECURSIVE classify_attempt(_, _, _, _)
classify_attempt(script, max_retries, attempt, waits) ==
    IF attempt >= max_retries
      THEN [raised |-> FALSE, result |-> SafeDefault, calls |-> attempt, waits |-> waits]
      ELSE LET r == script[attempt + 1] IN
           IF attempt_returns(r)
             THEN [raised |-> FALSE, result |-> coerce(r.payload),
                   calls |-> attempt + 1, waits |-> waits]
             ELSE classify_attempt(script, max_retries, attempt + 1,
                     backoff(waits, attempt, max_retries))

\* classify_post: get_openai_client raises when no API key is configured
classify_post(script, max_retries, api_key) ==
    IF ~api_key
      THEN [raised |-> TRUE, result |-> SafeDefault, calls |-> 0, waits |-> <<>>]
      ELSE classify_attempt(script, max_retries, 0, <<>>)

\* the JSON object the oracle writes for a classification
JsonOf(res) ==
    [is_frustrated     |-> IF res.is_frustrated THEN "true" ELSE "false",
     confidence        |-> res.confidence,
     reason            |-> res.reason,
     suggested_service |-> res.suggested_service]

\* oracle behaviours: the first call answers with the JSON of a result
AnswersAtOnce(results) ==
    { [i \in 1..DefaultMaxRetries |->
          IF i = 1 THEN TextResponse("none", "object", JsonOf(res)) ELSE TransportError] :
      res \in results }

\* the oracle fails on every call
AlwaysFails ==
    { [i \in 1..DefaultMaxRetries |-> TransportError],
      [i \in 1..DefaultMaxRetries |-> TextResponse("none", "garbage", NoPayload)] }

\* ------------------------------------------------------- analyzed posts
AnalyzedIds(analyzed) == { analyzed[i].raw_post_id : i \in DOMAIN analyzed }

\* raw post ids ordered by collected_at desc
NewestFirst(rows) == [i \in 1..Len(rows) |-> Len(rows) + 1 - i]

RECURSIVE Without(_, _)
Without(ids, excluded) ==
    IF ids = <<>> THEN <<>>
    ELSE IF Head(ids) \in excluded THEN Without(Tail(ids), excluded)
    ELSE <<Head(ids)>> \o Without(Tail(ids), excluded)

get_unanalyzed_posts_nofilter(rows, analyzed, limit) ==
    Take(Take(NewestFirst(rows), limit * 2), limit)

get_unanalyzed_posts(rows, analyzed, limit) ==
    LET analyzed_ids == AnalyzedIds(analyzed)
        all_posts    == Take(NewestFirst(rows), limit * 2)
        unanalyzed   == Without(all_posts, analyzed_ids)
    IN  Take(unanalyzed, limit)

insert_analysis(analyzed, analysis_data) == Append(analyzed, analysis_data)

\* the record run_pipeline stores for a post the sentiment filter rejects
FilteredAnalysis(rid, sentiment_score) ==
    [raw_post_id     |-> rid,
     is_frustrated   |-> FALSE,
     confidence      |-> 0,
     reason          |-> [kind |-> "Filtered by sentiment", score |-> Fmt3(sentiment_score)],
     sentiment_score |-> sentiment_score]

\* the record run_pipeline stores for a classified post
ClassifiedAnalysis(rid, result, sentiment_score) ==
    [raw_post_id     |-> rid,
     is_frustrated   |-> result.is_frustrated,
     confidence      |-> result.confidence,
     reason          |-> [kind |-> result.reason, score |-> 0],
     sentiment_score |-> sentiment_score]

\* ----------------------------------------------------------------- leads
LeadsOf(ls, aid) == { i \in DOMAIN ls : ls[i].analyzed_post_id = aid }

\* the store's UNIQUE (analyzed_post_id) constraint on leads
LeadUniqueViolation(ls, lead_data) == LeadsOf(ls, lead_data.analyzed_post_id) # {}

\* insert_lead without the try/except around the store insert
insert_lead_nocatch(ls, aid, analyzed_post, raw_post, store_error) ==
    LET lead_data == [analyzed_post_id |-> aid,
                      raw_post_id      |-> analyzed_post.raw_post_id,
                      confidence       |-> analyzed_post.confidence,
                      platform         |-> raw_post.platform,
                      status           |-> "new"]
    IN  IF store_error \/ LeadUniqueViolation(ls, lead_data)
          THEN [leads |-> ls, row |-> 0, raised |-> TRUE]
          ELSE [leads |-> Append(ls, lead_data), row |-> Len(ls) + 1, raised |-> FALSE]

\* db.insert_lead: the new lead's id (row), or 0 for None.  store_error: the
\* store raises an error other than the uniqueness violation.
insert_lead(ls, aid, analyzed_post, raw_post, store_error) ==
    LET lead_data == [analyzed_post_id |-> aid,
                      raw_post_id      |-> analyzed_post.raw_post_id,
                      confidence       |-> analyzed_post.confidence,
                      platform         |-> raw_post.platform,
                      status           |-> "new"]
    IN  IF store_error \/ LeadUniqueViolation(ls, lead_data)
          THEN [leads |-> ls, row |-> 0, raised |-> FALSE]
          ELSE [leads |-> Append(ls, lead_data), row |-> Len(ls) + 1, raised |-> FALSE]

\* pipeline._notify_lead: reads the webhook url from the settings table at
\* the time of the call; a failing POST is logged only
notify_lead(calls, tbl, lead_id) ==
    IF get_settings(tbl).n8n_webhook_url # ""
      THEN calls (+) SetToBag({lead_id})
      ELSE calls

\* the lead ids whose POST failed: post_raises is whether requests.post
\* raises or times out
notify_failures(failed, tbl, lead_id, post_raises) ==
    IF get_settings(tbl).n8n_webhook_url # "" /\ post_raises
      THEN failed \cup {lead_id}
      ELSE failed

\* _notify_lead without its try/except
notify_propagates_nocatch(tbl, post_raises) ==
    get_settings(tbl).n8n_webhook_url # "" /\ post_raises

\* _notify_lead lines 16-23: whether an exception leaves _notify_lead
notify_propagates(tbl, post_raises) == FALSE

PromoteAlways(result, cfg) == TRUE

\* run_pipeline line 110: the confidence bar of the lead promoter
PassesConfidenceBar(result, cfg) == result.confidence >= cfg.confidence_threshold

\* ------------------------------------------------------------- run_pipeline
ZeroStats == [posts_fetched |-> 0, sentiment_passed |-> 0, sentiment_skipped |-> 0,
              frustrated_detected |-> 0, not_frustrated |-> 0, errors |-> 0]

Inc(st, field) == [st EXCEPT ![field] = @ + 1]

\* an exception in the loop body ends the run
loop_continues_abort(st) == FALSE

\* run_pipeline lines 117-119: the except clause is inside the loop
loop_continues(st) == TRUE

\* One iteration of run_pipeline's loop over the fetched posts, for the raw
\* post with id rid: cfg is the settings snapshot of the run, tbl the settings
\* table now, script what the classification oracle does, fault what fails in
\* this iteration ("none", "sentiment": get_sentiment_score raises,
\* "classify": classify_post raises, "insert": db.insert_analysis raises,
\* "lead": the store fails in db.insert_lead, "notify": the webhook POST
\* raises).  Its store calls act on rows only this iteration creates, so the
\* iteration is one step.  classify_calls counts its calls of classify_post,
\* oracle_calls the requests these made to the oracle.
Iteration(rid, post, cfg, tbl, an, ls, calls, failed, st, script, fault) ==
    LET content == StrOr(post.content, post.title)
        same    == [analyzed |-> an, leads |-> ls, calls |-> calls, failed |-> failed,
                    stats |-> st, raised |-> FALSE,
                    classify_calls |-> 0, oracle_calls |-> 0]
    IN
    IF strip(content) = "" THEN same
    ELSE IF fault = "sentiment"
    THEN [same EXCEPT !.stats = Inc(st, "errors"), !.raised = TRUE]
    ELSE
      LET sentiment_score == get_sentiment_score(content) IN
      IF ~passes_sentiment_filter(content, cfg.sentiment_threshold)
      THEN LET st1 == Inc(st, "sentiment_skipped") IN
           IF fault = "insert"
             THEN [same EXCEPT !.stats = Inc(st1, "errors"), !.raised = TRUE]
             ELSE [same EXCEPT !.stats = st1,
                               !.analyzed = insert_analysis(an, FilteredAnalysis(rid, sentiment_score))]
      ELSE LET st1  == Inc(st, "sentiment_passed")
               cres == classify_post(script, DefaultMaxRetries, fault # "classify")
               called == [same EXCEPT !.classify_calls = 1, !.oracle_calls = cres.calls]
           IN
           IF cres.raised \/ fault = "insert"
             THEN [called EXCEPT !.stats = Inc(st1, "errors"), !.raised = TRUE]
             ELSE
               LET result       == cres.result
                   analysis_row == ClassifiedAnalysis(rid, result, sentiment_score)
                   an1          == insert_analysis(an, analysis_row)
                   aid          == Len(an1)
               IN
               IF result.is_frustrated
               THEN LET st2 == Inc(st1, "frustrated_detected") IN
                    IF PassesConfidenceBar(result, cfg)
                    THEN LET res == insert_lead(ls, aid, analysis_row, post, fault = "lead") IN
                         IF res.raised
                           THEN [called EXCEPT !.analyzed = an1, !.leads = res.leads,
                                             !.stats = Inc(st2, "errors"), !.raised = TRUE]
                           ELSE IF res.row = 0
                           THEN [called EXCEPT !.analyzed = an1, !.leads = res.leads, !.stats = st2]
                           ELSE IF notify_propagates(tbl, fault = "notify")
                           THEN [called EXCEPT !.analyzed = an1, !.leads = res.leads,
                                             !.stats = Inc(st2, "errors"), !.raised = TRUE]
                           ELSE [called EXCEPT !.analyzed = an1, !.leads = res.leads, !.stats = st2,
                                             !.calls = notify_lead(calls, tbl, res.row),
                                             !.failed = notify_failures(failed, tbl, res.row,
                                                                        fault = "notify")]
                    ELSE [called EXCEPT !.analyzed = an1, !.stats = st2]
               ELSE [called EXCEPT !.analyzed = an1, !.stats = Inc(st1, "not_frustrated")]

\* the exception text of a store that cannot be read
StoreError == "settings unavailable"

\* the registry a run_pipeline call of worker w reports into
RegistryOf(w) == IF via[w] = "api" THEN tasks ELSE cli_tasks[w]

\* write the registry of worker w
SetRegistry(w, reg) ==
    IF via[w] = "api"
      THEN tasks' = reg /\ UNCHANGED cli_tasks
      ELSE cli_tasks' = [cli_tasks EXCEPT ![w] = reg] /\ UNCHANGED tasks

\* api_analyze whose start_task makes a new registry that holds the analyze
\* entry only
ApiAnalyze_resets(w) ==
    /\ pc[w] = "idle"
    /\ pc' = [pc EXCEPT ![w] = "spawned"]
    /\ via' = [via EXCEPT ![w] = "api"]
    /\ tasks' = start_task(EmptyRegistry, "analyze", 0,
                           Msg("Preparing to analyze posts...", <<>>))
    /\ clobbered' = \E v \in Workers \ {w} : via[v] = "api" /\ pc[v] # "idle"
    /\ UNCHANGED <<store_vars, collector_vars, snap, batch, idx, stats, raised,
                   lead_ret, cli_tasks, cl, csweep, tcall, arun, poll, trace>>

\* api_analyze lines 219-222: the request handler resets the tracker entry
\* and starts the worker thread
ApiAnalyze(w) ==
    /\ pc[w] = "idle"
    /\ pc' = [pc EXCEPT ![w] = "spawned"]
    /\ via' = [via EXCEPT ![w] = "api"]
    /\ tasks' = start_task(tasks, "analyze", 0, Msg("Preparing to analyze posts...", <<>>))
    /\ clobbered' = \E v \in Workers \ {w} : via[v] = "api" /\ pc[v] # "idle"
    /\ UNCHANGED <<store_vars, collector_vars, snap, batch, idx, stats, raised,
                   lead_ret, cli_tasks, cl, csweep, tcall, arun, poll, trace>>

\* run_pipeline lines 36-61: read the settings, fetch the unanalyzed batch,
\* report to the tracker.  It is called by cmd_analyze (worker idle) or by the
\* thread api_analyze started (worker spawned).  store_raises: db.get_settings
\* raises; the thread of api_analyze then fails the task (lines 215-216), the
\* command ends.
StartRun(w, limit, store_faults) ==
    /\ pc[w] \in {"idle", "spawned"}
    /\ pc[w] = "idle" => via[w] = "cli"
    /\ \E store_raises \in store_faults :
         IF store_raises
           THEN /\ pc' = [pc EXCEPT ![w] = "idle"]
                /\ via' = [via EXCEPT ![w] = "cli"]
                /\ IF via[w] = "api"
                     THEN tasks' = fail_task(tasks, "analyze", StoreError)
                     ELSE UNCHANGED tasks
                /\ UNCHANGED <<snap, batch, idx, stats, raised, cli_tasks>>
           ELSE LET posts == get_unanalyzed_posts(raw_posts, analyzed_posts, limit)
                    total == Len(posts)
                IN  /\ pc' = [pc EXCEPT ![w] = "loop"]
                    /\ snap' = [snap EXCEPT ![w] = get_settings(settings)]
                    /\ batch' = [batch EXCEPT ![w] = posts]
                    /\ idx' = [idx EXCEPT ![w] = 1]
                    /\ stats' = [stats EXCEPT ![w] = [ZeroStats EXCEPT !.posts_fetched = total]]
                    /\ raised' = [raised EXCEPT ![w] = {}]
                    /\ SetRegistry(w,
                          IF total = 0
                            THEN update_progress(RegistryOf(w), "analyze", 0,
                                                 Msg("No new posts to analyze.", <<>>))
                            ELSE start_task(RegistryOf(w), "analyze", total,
                                            Msg("Starting analysis of", <<total>>)))
                    /\ UNCHANGED via
    /\ UNCHANGED <<store_vars, collector_vars, lead_ret, cl, csweep, tcall, arun, poll, trace, clobbered>>

\* the count run_pipeline reports as current is one too high
progress_current_next(i, total) == i + 2

\* the count run_pipeline reports as current for the i-th post: posts left
progress_current_remaining(i, total) == total - i

\* run_pipeline line 65: update_progress("analyze", i + 1, ...), i counted from 0
progress_current(i, total) == i + 1

\* run_pipeline lines 63-119: one post of the batch; with log, trace gets the
\* calls of the classifier the iteration made
ProcessPostStep(w, faults, scripts, log) ==
    /\ pc[w] = "loop"
    /\ idx[w] <= Len(batch[w])
    /\ \E script \in scripts, fault \in faults :
         LET rid == batch[w][idx[w]]
             out == Iteration(rid, raw_posts[rid], snap[w], settings, analyzed_posts,
                              leads, webhook_calls, webhook_failed, stats[w], script, fault)
         IN  /\ analyzed_posts' = out.analyzed
             /\ leads' = out.leads
             /\ webhook_calls' = out.calls
             /\ webhook_failed' = out.failed
             /\ stats' = [stats EXCEPT ![w] = out.stats]
             /\ raised' = [raised EXCEPT ![w] = IF out.raised THEN @ \cup {rid} ELSE @]
             /\ trace' = IF log
                           THEN << [w |-> w, rid |-> rid, classify_calls |-> out.classify_calls,
                                    oracle_calls |-> out.oracle_calls] >>
                           ELSE trace
             /\ IF out.raised /\ ~loop_continues(out.stats)
                  THEN idx' = [idx EXCEPT ![w] = Len(batch[w]) + 1]
                  ELSE idx' = [idx EXCEPT ![w] = @ + 1]
    /\ LET total == Len(batch[w])
           cur   == progress_current(idx[w] - 1, total)
       IN  SetRegistry(w, update_progress(RegistryOf(w), "analyze", cur,
                                          Msg("Analyzing post", <<cur, total>>)))
    /\ UNCHANGED <<raw_posts, settings, pc, via, snap, batch, collector_vars,
                   lead_ret, cl, csweep, tcall, arun, poll, clobbered>>

ProcessPost(w, faults, scripts) == ProcessPostStep(w, faults, scripts, FALSE)

\* run_pipeline lines 54-57 and 121-129: return the stats.  The thread of
\* api_analyze then completes the task (line 213); the process of cmd_analyze
\* ends, and its registry with it.
Return(w) ==
    /\ pc[w] = "loop"
    /\ idx[w] > Len(batch[w])
    /\ pc' = [pc EXCEPT ![w] = "idle"]
    /\ via' = [via EXCEPT ![w] = "cli"]
    /\ snap' = [snap EXCEPT ![w] = DEFAULT_SETTINGS]
    /\ batch' = [batch EXCEPT ![w] = <<>>]
    /\ idx' = [idx EXCEPT ![w] = 1]
    /\ stats' = [stats EXCEPT ![w] = ZeroStats]
    /\ raised' = [raised EXCEPT ![w] = {}]
    /\ IF via[w] = "api"
         THEN /\ tasks' = complete_task(tasks, "analyze",
                                        Msg("Analysis finished successfully", <<>>), stats[w])
              /\ UNCHANGED cli_tasks
         ELSE /\ cli_tasks' = [cli_tasks EXCEPT ![w] = EmptyRegistry]
              /\ UNCHANGED tasks
    /\ UNCHANGED <<store_vars, collector_vars, lead_ret, cl, csweep, tcall, arun, poll, trace, clobbered>>

NoLeadRet == [aid |-> 0, row |-> 0, raised |-> FALSE]

\* no classify_post call is being made
NoClassifyCall == [script |-> <<>>, max_retries |-> 0, api_key |-> TRUE, done |-> FALSE,
                   out |-> [raised |-> FALSE, result |-> SafeDefault, calls |-> 0, waits |-> <<>>]]

\* no collection sweep is running
NoSweep == [pc |-> "idle", via |-> "cli", pos |-> 0, all_stats |-> <<>>,
            last |-> <<>>, before |-> 0]

\* a direct call of the promotion step, run_pipeline lines 111-113, for a
\* stored AnalyzedPost: db.insert_lead, then the notification if a lead came back
InsertLeadCall(aid) ==
    /\ aid \in DOMAIN analyzed_posts
    /\ LET a   == analyzed_posts[aid]
           res == insert_lead(leads, aid, a, raw_posts[a.raw_post_id], FALSE)
       IN  /\ leads' = res.leads
           /\ lead_ret' = [aid |-> aid, row |-> res.row, raised |-> res.raised]
           /\ webhook_calls' = IF res.row # 0 /\ ~res.raised
                                 THEN notify_lead(webhook_calls, settings, res.row)
                                 ELSE webhook_calls
    /\ UNCHANGED <<raw_posts, analyzed_posts, settings, webhook_failed, collector_vars,
                   worker_vars, tracker_vars, cl, csweep, tcall, arun, poll, trace, clobbered>>

\* --------------------------------------------------------- collection sweep
\* What a source does on a fetch: "ok" (it delivers its item), "fail" (the
\* request raises), "off" (the adapter's credentials are not configured).
\* A source with several feeds (Mastodon instances, Apify actors) has one
\* outcome per feed.
ApifyActors == <<"reddit", "twitter", "facebook">>

MastodonInstances == <<"mastodon.social", "fosstodon.org">>

\* the item a feed delivers: text that matches the keywords
FeedItem(platform, post_id) ==
    [platform |-> platform, post_id |-> post_id, title |-> "", content |-> "neg"]

\* db.insert_raw_post as one call: post_data["post_id"] raises KeyError when
\* the adapter built post_data without that key
insert_raw_post(rows, post_data, has_post_id) ==
    IF ~has_post_id THEN [rows |-> rows, ret |-> "raised"]
    ELSE IF check_duplicate(rows, post_data.platform, post_data.post_id)
    THEN [rows |-> rows, ret |-> "dup"]
    ELSE [rows |-> Append(rows, post_data), ret |-> "row"]

\* the stats dict of an adapter; error and skipped are whether the dict has
\* that key
AdapterStats(platform, source) ==
    [platform |-> platform, source |-> source, items_fetched |-> 0,
     posts_inserted |-> 0, duplicates_skipped |-> 0, error |-> FALSE, skipped |-> FALSE]

\* the insert block of the adapters (e.g. devto_collector lines 81-91): a
\* KeyError is neither "duplicate" nor "unique" and is only logged
process_item(acc, post_data, has_post_id) ==
    LET ins == insert_raw_post(acc.rows, post_data, has_post_id) IN
    [rows  |-> ins.rows,
     stats |-> [acc.stats EXCEPT
                  !.items_fetched = @ + 1,
                  !.posts_inserted = @ + (IF ins.ret = "row" THEN 1 ELSE 0),
                  !.duplicates_skipped = @ + (IF ins.ret = "dup" THEN 1 ELSE 0)]]

\* devto_collector.collect_posts: post_data has "post_id"
devto_collect(rows, fetch) ==
    LET st0 == AdapterStats("devto", "public_api") IN
    IF fetch = "fail"
      THEN [rows |-> rows, stats |-> <<[st0 EXCEPT !.error = TRUE]>>]
      ELSE LET acc == process_item([rows |-> rows, stats |-> st0],
                                   FeedItem("devto", "d1"), TRUE)
           IN  [rows |-> acc.rows, stats |-> <<acc.stats>>]

\* hackernews_collector.collect_posts: post_data has no "post_id"
hackernews_collect(rows, fetch) ==
    LET st0 == AdapterStats("hackernews", "algolia") IN
    IF fetch = "fail"
      THEN [rows |-> rows, stats |-> <<[st0 EXCEPT !.error = TRUE]>>]
      ELSE LET acc == process_item([rows |-> rows, stats |-> st0],
                                   FeedItem("hackernews", "h1"), FALSE)
           IN  [rows |-> acc.rows, stats |-> <<acc.stats>>]

\* mastodon_collector._collect_from_instance for the instances from number i
\* on: a failed request is logged and the instance left; post_data has no
\* "post_id"
RECURSIVE mastodon_instances(_, _, _)
mastodon_instances(acc, fetches, i) ==
    IF i > Len(fetches) THEN acc
    ELSE IF fetches[i] = "fail" THEN mastodon_instances(acc, fetches, i + 1)
    ELSE mastodon_instances(
             process_item(acc, FeedItem("mastodon", MastodonInstances[i]), FALSE),
             fetches, i + 1)

\* mastodon_collector.collect_posts
mastodon_collect(rows, fetches) ==
    LET acc == mastodon_instances(
                  [rows |-> rows, stats |-> AdapterStats("mastodon", "public_api")], fetches, 1)
    IN  [rows |-> acc.rows, stats |-> <<acc.stats>>]

\* apify_collector.collect_reddit / collect_twitter / collect_facebook
apify_collect_one(rows, platform, fetch) ==
    LET st0 == AdapterStats(platform, "apify") IN
    CASE fetch = "off"  -> [rows |-> rows, stats |-> [st0 EXCEPT !.skipped = TRUE]]
      [] fetch = "fail" -> [rows |-> rows, stats |-> [st0 EXCEPT !.error = TRUE]]
      [] OTHER          -> process_item([rows |-> rows, stats |-> st0],
                                        FeedItem(platform, "a1"), TRUE)

\* apify_collector.collect_all, for the actors from number i on
RECURSIVE apify_collect_all(_, _, _)
apify_collect_all(out, fetches, i) ==
    IF i > Len(fetches) THEN out
    ELSE LET one == apify_collect_one(out.rows, ApifyActors[i], fetches[i]) IN
         apify_collect_all([rows |-> one.rows, stats |-> Append(out.stats, one.stats)],
                           fetches, i + 1)

\* reddit_collector.collect_posts behind is_configured(), as cmd_collect
\* calls it: one subreddit; a failed listing is logged and the subreddit left
reddit_collect(rows, fetch) ==
    LET st0 == AdapterStats("reddit", "praw") IN
    CASE fetch = "off"  -> [rows |-> rows, stats |-> <<>>]
      [] fetch = "fail" -> [rows |-> rows, stats |-> <<st0>>]
      [] OTHER          -> LET acc == process_item([rows |-> rows, stats |-> st0],
                                                   FeedItem("reddit", "r1"), TRUE)
                           IN  [rows |-> acc.rows, stats |-> <<acc.stats>>]

\* the sources in the order cmd_collect runs them
SweepOrder == <<"reddit", "apify", "hackernews", "mastodon", "devto">>

\* the fetch outcomes a source can have, one per feed
FetchesOf(source) ==
    CASE source = "reddit"   -> { <<f>> : f \in {"ok", "fail", "off"} }
      [] source = "apify"    -> [1..Len(ApifyActors) -> {"ok", "fail"}]
                                  \cup { [i \in 1..Len(ApifyActors) |-> "off"] }
      [] source = "mastodon" -> [1..Len(MastodonInstances) -> {"ok", "fail"}]
      [] OTHER               -> { <<f>> : f \in {"ok", "fail"} }

\* one try block of cmd_collect: the stats the source returns are appended
collect_source(source, rows, fetches) ==
    CASE source = "reddit"     -> reddit_collect(rows, fetches[1])
      [] source = "apify"      -> apify_collect_all([rows |-> rows, stats |-> <<>>], fetches, 1)
      [] source = "hackernews" -> hackernews_collect(rows, fetches[1])
      [] source = "mastodon"   -> mastodon_collect(rows, fetches)
      [] OTHER                 -> devto_collect(rows, fetches[1])

\* cmd_collect lines 24-32: read the settings, start with no stats
CmdCollect_Start ==
    /\ csweep.pc = "idle"
    /\ csweep' = [NoSweep EXCEPT !.pc = "run", !.pos = 1]
    /\ UNCHANGED <<store_vars, collector_vars, worker_vars, lead_ret, tracker_vars, cl, tcall, arun, poll, trace, clobbered>>

\* cmd_collect lines 34-87: the try block of the next source
CmdCollect_Source ==
    /\ csweep.pc = "run" /\ csweep.via = "cli"
    /\ csweep.pos <= Len(SweepOrder)
    /\ \E fetches \in FetchesOf(SweepOrder[csweep.pos]) :
         LET out == collect_source(SweepOrder[csweep.pos], raw_posts, fetches) IN
         /\ raw_posts' = out.rows
         /\ csweep' = [csweep EXCEPT !.pos = @ + 1,
                                     !.all_stats = @ \o out.stats,
                                     !.last = fetches,
                                     !.before = Len(raw_posts)]
    /\ UNCHANGED <<analyzed_posts, leads, settings, webhook_calls, webhook_failed,
                   collector_vars, worker_vars, lead_ret, tracker_vars, cl, tcall, arun, poll, trace, clobbered>>

\* cmd_collect lines 89-95: return all_stats
CmdCollect_Return ==
    /\ csweep.pc = "run" /\ csweep.via = "cli"
    /\ csweep.pos > Len(SweepOrder)
    /\ csweep' = NoSweep
    /\ UNCHANGED <<store_vars, collector_vars, worker_vars, lead_ret, tracker_vars, cl, tcall, arun, poll, trace, clobbered>>

\* the try blocks of the thread of api_collect, in order: the source each
\* runs, and the current and message it reports first (progress 0: no report)
ApiCollectOrder ==
    << [source |-> "reddit",         progress |-> 0, message |-> NoMessage],
       [source |-> "apify",          progress |-> 0, message |-> NoMessage],
       [source |-> "hackernews",     progress |-> 0, message |-> NoMessage],
       [source |-> "mastodon",       progress |-> 0, message |-> NoMessage],
       [source |-> "reddit_monitor", progress |-> 1,
        message |-> Msg("Polling Reddit Subreddits...", <<>>)],
       [source |-> "apify_bundle",   progress |-> 2,
        message |-> Msg("Running Apify Social Scrapers...", <<>>)],
       [source |-> "hn_collector",   progress |-> 3,
        message |-> Msg("Checking Hacker News...", <<>>)],
       [source |-> "mastodon",       progress |-> 4,
        message |-> Msg("Scraping Mastodon...", <<>>)],
       [source |-> "devto",          progress |-> 5,
        message |-> Msg("Fetching from Dev.to...", <<>>)] >>

\* sum(r.get(field, 0) for r in results)
RECURSIVE sum_stats(_, _, _)
sum_stats(results, field, i) ==
    IF i > Len(results) THEN 0 ELSE results[i][field] + sum_stats(results, field, i + 1)

\* apify_collector.collect_posts: collect_all, then one dict with the sums
\* (it has the keys platform, posts_inserted and duplicates_skipped only)
apify_collect_posts(rows, fetches) ==
    LET out == apify_collect_all([rows |-> rows, stats |-> <<>>], fetches, 1) IN
    [rows  |-> out.rows,
     stats |-> << [AdapterStats("social_bundle", "") EXCEPT
                     !.posts_inserted = sum_stats(out.stats, "posts_inserted", 1),
                     !.duplicates_skipped = sum_stats(out.stats, "duplicates_skipped", 1)] >>]

\* the fetch outcomes of one try block of api_collect, each among outcomes;
\* the modules reddit_monitor and hn_collector do not exist and fetch nothing
ApiFetchesOf(source, outcomes) ==
    CASE source \in {"reddit_monitor", "hn_collector"} -> { <<>> }
      [] source = "apify_bundle" ->
           { f \in FetchesOf("apify") : \A i \in DOMAIN f : f[i] \in outcomes }
      [] OTHER ->
           { f \in FetchesOf(source) : \A i \in DOMAIN f : f[i] \in outcomes }

\* one try block of api_collect after its progress report: an import that
\* fails is caught and logged
api_collect_block(source, rows, fetches) ==
    CASE source \in {"reddit_monitor", "hn_collector"} -> [rows |-> rows, stats |-> <<>>]
      [] source = "apify_bundle" -> apify_collect_posts(rows, fetches)
      [] OTHER -> collect_source(source, rows, fetches)

\* api_collect lines 194-196: the request handler resets the tracker entry
\* and starts the worker thread
ApiCollect ==
    /\ csweep.pc = "idle"
    /\ csweep' = [NoSweep EXCEPT !.pc = "spawned", !.via = "api"]
    /\ tasks' = start_task(tasks, "collect", CollectTotal,
                           Msg("Starting collection process...", <<>>))
    /\ UNCHANGED <<store_vars, collector_vars, worker_vars, lead_ret, cli_tasks, cl, tcall, arun, poll, trace, clobbered>>

\* the thread of api_collect, lines 98-105: read the settings.  store_raises:
\* db.get_settings raises, and the outer handler fails the task (lines
\* 190-192)
ApiCollect_Start(store_faults) ==
    /\ csweep.pc = "spawned"
    /\ \E store_raises \in store_faults :
         IF store_raises
           THEN /\ csweep' = NoSweep
                /\ tasks' = fail_task(tasks, "collect", StoreError)
           ELSE /\ csweep' = [csweep EXCEPT !.pc = "run", !.pos = 1]
                /\ UNCHANGED tasks
    /\ UNCHANGED <<store_vars, collector_vars, worker_vars, lead_ret, cli_tasks, cl, tcall, arun, poll, trace, clobbered>>

\* the thread of api_collect, lines 107-186: the next try block
ApiCollect_Block(outcomes) ==
    /\ csweep.pc = "run" /\ csweep.via = "api"
    /\ csweep.pos <= Len(ApiCollectOrder)
    /\ LET block == ApiCollectOrder[csweep.pos] IN
       \E fetches \in ApiFetchesOf(block.source, outcomes) :
         LET out == api_collect_block(block.source, raw_posts, fetches) IN
         /\ tasks' = IF block.progress > 0
                       THEN update_progress(tasks, "collect", block.progress, block.message)
                       ELSE tasks
         /\ raw_posts' = out.rows
         /\ csweep' = [csweep EXCEPT !.pos = @ + 1,
                                     !.all_stats = @ \o out.stats,
                                     !.last = fetches,
                                     !.before = Len(raw_posts)]
    /\ UNCHANGED <<analyzed_posts, leads, settings, webhook_calls, webhook_failed,
                   collector_vars, worker_vars, lead_ret, cli_tasks, cl, tcall, arun, poll, trace, clobbered>>

\* a thread of api_collect that ends without reporting
ApiCollect_Done_silent ==
    /\ csweep.pc = "run" /\ csweep.via = "api"
    /\ csweep.pos > Len(ApiCollectOrder)
    /\ csweep' = NoSweep
    /\ UNCHANGED <<store_vars, collector_vars, worker_vars, lead_ret, tracker_vars, cl, tcall,
                   arun, poll, trace, clobbered>>

\* the thread of api_collect, lines 188-189: complete the task
ApiCollect_Done ==
    /\ csweep.pc = "run" /\ csweep.via = "api"
    /\ csweep.pos > Len(ApiCollectOrder)
    /\ csweep' = NoSweep
    /\ tasks' = complete_task(tasks, "collect", Msg("Collection finished successfully", <<>>),
                              [stats |-> csweep.all_stats])
    /\ UNCHANGED <<store_vars, collector_vars, worker_vars, lead_ret, cli_tasks, cl, tcall, arun, poll, trace, clobbered>>

\* the call classify_post(content, services, model, max_retries) against an
\* oracle that behaves as cl.script says
ClassifyCall ==
    /\ cl.script # <<>>
    /\ ~cl.done
    /\ cl' = [cl EXCEPT !.done = TRUE,
                        !.out = classify_post(cl.script, cl.max_retries, cl.api_key)]
    /\ UNCHANGED <<store_vars, collector_vars, worker_vars, lead_ret, tracker_vars, csweep, tcall, arun, poll, trace, clobbered>>

\* ------------------------------------------------------- the source adapters
\* A text is pad whitespace characters followed by words (pad 0 and no words:
\* the empty string).  The words stand for themselves and their upper-case
\* spellings.
Text(pad, words) == [pad |-> pad, words |-> words]

EmptyText == Text(0, <<>>)

\* a blank test that lets every text through
text_blank_never(t) == FALSE

\* text.strip() == ""
text_blank(t) == t.words = <<>>

\* text.strip()
text_strip(t) == Text(0, t.words)

\* bool(text): a string of whitespace is truthy
text_truthy(t) == t.pad > 0 \/ t.words # <<>>

\* Python's  a or b  on texts
TextOr(a, b) == IF text_truthy(a) THEN a ELSE b

\* text[:n], for texts whose words end before character n unless the padding
\* alone reaches it
Truncate(t, n) == IF t.pad >= n THEN Text(n, <<>>) ELSE t

\* str.lower() of one word
lower(word) == IF word \in {"FRUSTRATED", "Frustrated"} THEN "frustrated" ELSE word

\* _matches_keywords(full_text, keywords), full_text being the parts joined
\* by a space:  any(kw.lower() in text.lower() for kw in keywords)
matches_keywords(parts, keywords) ==
    \E kw \in keywords : \E i \in DOMAIN parts :
       \E j \in DOMAIN parts[i].words : lower(parts[i].words[j]) = lower(kw)

\* the keyword test of the adapters: apify, devto, hackernews and mastodon
\* write  keywords and not _matches_keywords(...)  , reddit_collector line 74
\* writes  not matches_keywords(...)  , manual_import has no keyword test
keyword_filtered(adapter, parts, keywords) ==
    CASE adapter = "reddit" -> ~matches_keywords(parts, keywords)
      [] adapter = "manual" -> FALSE
      [] OTHER              -> keywords # {} /\ ~matches_keywords(parts, keywords)

\* hashlib.md5(identifier).hexdigest()[:12]: the digest stands for the class
\* of the identifiers that share it, as the urls u2 and u3 do
Md5_12(identifier) ==
    IF identifier \in { Text(0, <<"u2">>), Text(0, <<"u3">>) } THEN Text(0, <<"u2">>)
    ELSE identifier

\* a post id: a native one, or platform-digest
NativeId(t) == [synth |-> FALSE, prefix |-> "", v |-> t]

\* _map_to_post that falls back to a fresh value each time
map_post_id_fresh(platform, item, now) ==
    IF text_truthy(item.id) THEN NativeId(item.id)
    ELSE [synth |-> TRUE, prefix |-> platform, v |-> Md5_12(now)]

\* apify_collector._map_to_post lines 124-129: the post_id of the mapped
\* post; now is str(time.time())
map_post_id(platform, item, now) ==
    IF text_truthy(item.id) THEN NativeId(item.id)
    ELSE LET identifier == TextOr(item.url, TextOr(item.content, TextOr(item.title, now)))
         IN  [synth |-> TRUE, prefix |-> platform, v |-> Md5_12(identifier)]

\* the keys of the stats dicts that the adapters count in (posts_scanned of
\* reddit_collector is items_fetched here)
ZeroCounts == [items_fetched |-> 0, posts_inserted |-> 0, duplicates_skipped |-> 0,
               filtered_out |-> 0]

\* the post_data an adapter builds from an item that passed its filters
\* (manual: manual_import.import_csv from a row of the file); has_post_id is
\* whether the dict has the key "post_id"
post_data_of(adapter, platform, item, now) ==
    CASE adapter = "reddit" ->
           [has_post_id |-> TRUE,
            row |-> [platform |-> "reddit", post_id |-> NativeId(item.id), url |-> item.url,
                     title |-> item.title, content |-> TextOr(item.content, item.title)]]
      [] adapter = "apify" ->
           [has_post_id |-> TRUE,
            row |-> [platform |-> platform, post_id |-> map_post_id(platform, item, now),
                     url |-> item.url, title |-> item.title, content |-> item.content]]
      [] adapter = "devto" ->
           [has_post_id |-> TRUE,
            row |-> [platform |-> "devto", post_id |-> NativeId(item.id), url |-> item.url,
                     title |-> Truncate(item.title, 500),
                     content |-> Truncate(item.content, 2000)]]
      [] adapter = "hackernews" ->
           [has_post_id |-> FALSE,
            row |-> [platform |-> "hackernews", post_id |-> NativeId(EmptyText), url |-> item.url,
                     title |-> Truncate(item.title, 500),
                     content |-> IF text_truthy(item.content)
                                   THEN Truncate(item.content, 2000)
                                   ELSE Truncate(item.title, 2000)]]
      [] adapter = "mastodon" ->
           [has_post_id |-> FALSE,
            row |-> [platform |-> "mastodon", post_id |-> NativeId(EmptyText), url |-> item.url,
                     title |-> EmptyText, content |-> Truncate(item.content, 2000)]]
      [] OTHER ->
           [has_post_id |-> FALSE,
            row |-> [platform |-> "manual", post_id |-> NativeId(EmptyText), url |-> item.url,
                     title |-> Truncate(text_strip(item.title), 500),
                     content |-> Truncate(text_strip(item.content), 5000)]]

\* db.insert_raw_post called by an adapter.  fault "race": a concurrent
\* collector stores the same post between the duplicate check and the
\* insert, and the store raises the uniqueness violation; "error": the store
\* raises another error.  ret: "row", "dup" (None), or what was raised.
insert_raw_post_call(rows, post, fault) ==
    IF ~post.has_post_id THEN [rows |-> rows, ret |-> "KeyError"]
    ELSE IF check_duplicate(rows, post.row.platform, post.row.post_id)
    THEN [rows |-> rows, ret |-> "dup"]
    ELSE IF fault = "race" THEN [rows |-> Append(rows, post.row), ret |-> "unique violation"]
    ELSE IF fault = "error" THEN [rows |-> rows, ret |-> "store error"]
    ELSE [rows |-> Append(rows, post.row), ret |-> "row"]

\* what one pass of an adapter's loop did
NoStep == [handed |-> FALSE, filtered |-> FALSE, ret |-> "none", aborted |-> FALSE,
           post_id |-> NativeId(EmptyText)]

\* one pass of the loop over the fetched items: reddit_collector lines 70-104
\* (an exception leaves the listing of the subreddit, lines 106-108),
\* apify_collector lines 220-244, devto_collector lines 52-91,
\* hackernews_collector lines 69-115, mastodon_collector lines 84-119,
\* manual_import.import_csv lines 81-103 (items_fetched is its rows_parsed)
adapter_item(adapter, platform, rows, counts, item, keywords, fault, now) ==
    LET \* the texts tested for emptiness and keywords (mastodon and the
        \* manual import read the content only)
        parts   == IF adapter \in {"mastodon", "manual"} THEN <<item.content>>
                   ELSE <<item.title, item.content>>
        fetched == [counts EXCEPT !.items_fetched = @ + 1]
        post    == post_data_of(adapter, platform, item, now)
        \* _process_items maps the item before it filters it
        mapped  == IF adapter = "apify" THEN [NoStep EXCEPT !.post_id = post.row.post_id]
                   ELSE NoStep
        skip    == [rows |-> rows, counts |-> fetched, step |-> mapped]
    IN
    IF adapter # "reddit" /\ (\A i \in DOMAIN parts : text_blank(parts[i]))
      THEN IF adapter = "manual"
             THEN [skip EXCEPT !.step.filtered = TRUE]
             ELSE [skip EXCEPT !.counts.filtered_out = @ + 1, !.step.filtered = TRUE]
    ELSE IF keyword_filtered(adapter, parts, keywords)
      THEN IF adapter = "reddit"
             THEN [skip EXCEPT !.step.filtered = TRUE]
             ELSE [skip EXCEPT !.counts.filtered_out = @ + 1, !.step.filtered = TRUE]
    ELSE
      LET ins  == insert_raw_post_call(rows, post, fault)
          step == [NoStep EXCEPT !.handed = TRUE, !.ret = ins.ret,
                                 !.post_id = post.row.post_id]
      IN
      CASE ins.ret = "row" ->
             [rows |-> ins.rows, step |-> step,
              counts |-> [fetched EXCEPT !.posts_inserted = @ + 1]]
        [] ins.ret = "dup" ->
             [rows |-> ins.rows, step |-> step,
              counts |-> [fetched EXCEPT !.duplicates_skipped = @ + 1]]
        [] OTHER ->
             IF adapter = "reddit"
               THEN [rows |-> ins.rows, counts |-> fetched,
                     step |-> [step EXCEPT !.aborted = TRUE]]
             \* "duplicate" in str(e).lower() or "unique" in str(e).lower()
             ELSE IF ins.ret = "unique violation"
               THEN [rows |-> ins.rows, step |-> step,
                     counts |-> [fetched EXCEPT !.duplicates_skipped = @ + 1]]
               ELSE [rows |-> ins.rows, counts |-> fetched, step |-> step]

\* no adapter is collecting
NoAdapterRun == [pc |-> "idle", adapter |-> "none", platform |-> "none", keywords |-> {},
                 items |-> <<>>, pos |-> 0, run |-> 0, counts |-> ZeroCounts,
                 faulted |-> FALSE, last |-> NoStep]

\* the next item of the batch the adapter fetched goes through its loop; at
\* most one store fault per collection
AdapterItem(faults) ==
    /\ arun.pc = "run"
    /\ arun.pos <= Len(arun.items)
    /\ \E fault \in faults, now \in { Text(0, <<"t1">>), Text(0, <<"t2">>) } :
         /\ fault # "none" => ~arun.faulted
         /\ LET out == adapter_item(arun.adapter, arun.platform, raw_posts, arun.counts,
                                    arun.items[arun.pos], arun.keywords, fault, now)
            IN  /\ raw_posts' = out.rows
                /\ arun' = [arun EXCEPT !.pos = IF out.step.aborted THEN Len(arun.items) + 1
                                                 ELSE @ + 1,
                                        !.counts = out.counts,
                                        !.faulted = @ \/ fault # "none",
                                        !.last = out.step]
    /\ UNCHANGED <<analyzed_posts, leads, settings, webhook_calls, webhook_failed,
                   collector_vars, worker_vars, lead_ret, tracker_vars, cl, csweep, tcall,
                   poll, trace, clobbered>>

\* the adapter's collect returns its stats
AdapterReturn ==
    /\ arun.pc = "run"
    /\ arun.pos > Len(arun.items)
    /\ arun' = [arun EXCEPT !.pc = "done", !.last = NoStep]
    /\ UNCHANGED <<store_vars, collector_vars, worker_vars, lead_ret, tracker_vars,
                   cl, csweep, tcall, poll, trace, clobbered>>

\* the same adapter collects once more, and the source delivers the same
\* items
AdapterAgain ==
    /\ arun.pc = "done"
    /\ arun.run = 1
    /\ arun' = [arun EXCEPT !.pc = "run", !.run = 2, !.pos = 1, !.counts = ZeroCounts,
                            !.faulted = FALSE, !.last = NoStep]
    /\ UNCHANGED <<store_vars, collector_vars, worker_vars, lead_ret, tracker_vars,
                   cl, csweep, tcall, poll, trace, clobbered>>

\* ------------------------------------------------------------ specifications
Init ==
    /\ raw_posts = <<>>
    /\ analyzed_posts = <<>>
    /\ leads = <<>>
    /\ settings = DEFAULT_SETTINGS
    /\ webhook_calls = EmptyBag
    /\ webhook_failed = {}
    /\ cpc = [c \in Collectors |-> "idle"]
    /\ cpost = [c \in Collectors |-> NoPost]
    /\ cdup = [c \in Collectors |-> FALSE]
    /\ cstored = [c \in Collectors |-> FALSE]
    /\ cret = [c \in Collectors |-> "init"]
    /\ pc = [w \in Workers |-> "idle"]
    /\ via = [w \in Workers |-> "cli"]
    /\ snap = [w \in Workers |-> DEFAULT_SETTINGS]
    /\ batch = [w \in Workers |-> <<>>]
    /\ idx = [w \in Workers |-> 1]
    /\ stats = [w \in Workers |-> ZeroStats]
    /\ raised = [w \in Workers |-> {}]
    /\ lead_ret = NoLeadRet
    /\ tasks = EmptyRegistry
    /\ cli_tasks = [w \in Workers |-> EmptyRegistry]
    /\ cl = NoClassifyCall
    /\ csweep = NoSweep
    /\ tcall = NoTrackerCall
    /\ arun = NoAdapterRun
    /\ poll = NoPoll
    /\ trace = <<>>
    /\ clobbered = FALSE

\* the adapters at work: cs are the collectors running, items what the sources deliver
Ingest(cs, items) ==
    \/ \E c \in cs, item \in items : InsertRawPost_Check(c, item)
    \/ \E c \in cs : InsertRawPost_Insert(c)

\* what the sources deliver while analysis sweeps run
SweepItems == { it \in Items : it.post_id = "p1" }

\* Sweeps started through the dashboard (api_analyze starts a thread per
\* request, so sweeps overlap) while a collector ingests.
Next ==
    \/ Ingest({"c1"}, SweepItems)
    \/ \E w \in Workers, limit \in 1..MaxLimit : StartRun(w, limit, {FALSE})
    \/ \E w \in Workers, script \in AnswersAtOnce(OracleResults) : ProcessPost(w, {"none"}, {script})
    \/ \E w \in Workers : Return(w)

Spec == Init /\ [][Next]_vars

\* Concurrent collectors only.
IngestNext == Ingest(Collectors, Items)

IngestSpec == Init /\ [][IngestNext]_vars

\* One sweep at a time (main.cmd_analyze run repeatedly), with store faults
\* and settings changes between and during the sweeps.
SeqNext ==
    \/ Ingest({"c1"}, SweepItems)
    \/ update_setting({ -6124, -500 }, { 80, 90 }, {""})
    \/ \E limit \in 1..MaxLimit : StartRun("w1", limit, {FALSE})
    \/ \E fault \in {"none", "insert"}, script \in AnswersAtOnce(OracleResults) :
          ProcessPost("w1", {fault}, {script})
    \/ Return("w1")

SeqSpec == Init /\ [][SeqNext]_vars

\* One sweep at a time plus direct calls of the promotion step, with the
\* notification webhook switched on and off, store errors in db.insert_lead
\* and failing webhook POSTs.
LeadItems == { it \in SweepItems : it.content = "neg" }

LeadNext ==
    \/ Ingest({"c1"}, LeadItems)
    \/ \E url \in { "", "http://n8n" } : update_setting({-500}, {80}, {url})
    \/ \E limit \in 1..MaxLimit : StartRun("w1", limit, {FALSE})
    \/ \E fault \in {"none", "lead", "notify"}, script \in AnswersAtOnce(OracleResults) :
          ProcessPost("w1", {fault}, {script})
    \/ Return("w1")
    \/ \E aid \in DOMAIN analyzed_posts : InsertLeadCall(aid)

LeadSpec == Init /\ [][LeadNext]_vars

\* Ingestion has stopped: the store holds posts with visible text, and
\* analyze(limit) is repeated forever without processing errors.
LiveStores ==
    LET LiveItems == { it \in Items : strip(it.content) # "" } IN
    { rows \in UNION { [1..n -> LiveItems] : n \in 1..Cardinality(Keys) } :
        \A i, j \in DOMAIN rows :
            (rows[i].platform = rows[j].platform /\ rows[i].post_id = rows[j].post_id)
               => i = j }

LiveInit ==
    /\ raw_posts \in LiveStores
    /\ analyzed_posts = <<>>
    /\ leads = <<>>
    /\ settings = DEFAULT_SETTINGS
    /\ webhook_calls = EmptyBag
    /\ webhook_failed = {}
    /\ cpc = [c \in Collectors |-> "idle"]
    /\ cpost = [c \in Collectors |-> NoPost]
    /\ cdup = [c \in Collectors |-> FALSE]
    /\ cstored = [c \in Collectors |-> FALSE]
    /\ cret = [c \in Collectors |-> "init"]
    /\ pc = [w \in Workers |-> "idle"]
    /\ via = [w \in Workers |-> "cli"]
    /\ snap = [w \in Workers |-> DEFAULT_SETTINGS]
    /\ batch = [w \in Workers |-> <<>>]
    /\ idx = [w \in Workers |-> 1]
    /\ stats = [w \in Workers |-> ZeroStats]
    /\ raised = [w \in Workers |-> {}]
    /\ lead_ret = NoLeadRet
    /\ tasks = EmptyRegistry
    /\ cli_tasks = [w \in Workers |-> EmptyRegistry]
    /\ cl = NoClassifyCall
    /\ csweep = NoSweep
    /\ tcall = NoTrackerCall
    /\ arun = NoAdapterRun
    /\ poll = NoPoll
    /\ trace = <<>>
    /\ clobbered = FALSE

LiveNext ==
    \/ \E limit \in 1..MaxLimit : StartRun("w1", limit, {FALSE})
    \/ \E script \in AnswersAtOnce(OracleResults) : ProcessPost("w1", {"none"}, {script})
    \/ Return("w1")

LiveSpec == LiveInit /\ [][LiveNext]_vars /\ WF_vars(LiveNext)

\* One sweep at a time under the default settings, where any step of an
\* iteration may raise and the oracle may fail on every call.
FaultNext ==
    \/ Ingest({"c1"}, SweepItems)
    \/ \E limit \in 1..MaxLimit : StartRun("w1", limit, {FALSE})
    \/ \E fault \in {"none", "sentiment", "classify", "insert", "lead", "notify"},
          script \in AnswersAtOnce(OracleResults) \cup AlwaysFails :
          ProcessPost("w1", {fault}, {script})
    \/ Return("w1")

FaultSpec == Init /\ [][FaultNext]_vars

\* Collection sweeps from the command line, one after the other.
CollectNext ==
    \/ CmdCollect_Start
    \/ CmdCollect_Source
    \/ CmdCollect_Return

CollectSpec == Init /\ [][CollectNext]_vars

\* The dashboard: one collect sweep and one analyze sweep at a time, each
\* started by its request handler; the store may be unreadable when a worker
\* thread starts.
DashNext ==
    \/ ApiCollect
    \/ ApiCollect_Start(BOOLEAN)
    \/ ApiCollect_Block({"ok"})
    \/ ApiCollect_Done
    \/ ApiAnalyze("w1")
    \/ pc["w1"] = "spawned" /\ \E limit \in 1..MaxLimit : StartRun("w1", limit, BOOLEAN)
    \/ \E script \in AnswersAtOnce(OracleResults) : ProcessPost("w1", {"none"}, {script})
    \/ Return("w1")

DashSpec == Init /\ [][DashNext]_vars

\* The dashboard with threads that keep running: a started worker thread
\* takes its next step (every external call returns or raises), requests
\* come or do not.  Every fetch of the collect thread raises; the posts to
\* analyse come from a collector outside the dashboard.
DashLiveNext ==
    \/ Ingest({"c1"}, { it \in SweepItems : it.content = "pos" })
    \/ ApiCollect
    \/ ApiCollect_Start(BOOLEAN)
    \/ ApiCollect_Block({"fail"})
    \/ ApiCollect_Done
    \/ ApiAnalyze("w1")
    \/ pc["w1"] = "spawned" /\ \E limit \in 1..MaxLimit : StartRun("w1", limit, BOOLEAN)
    \/ \E script \in AnswersAtOnce(OracleResults) : ProcessPost("w1", {"none"}, {script})
    \/ Return("w1")

DashLiveSpec ==
    /\ Init /\ [][DashLiveNext]_vars
    /\ WF_vars(ApiCollect_Start(BOOLEAN) \/ ApiCollect_Block({"fail"}) \/ ApiCollect_Done)
    /\ WF_vars(\/ pc["w1"] = "spawned" /\ \E limit \in 1..MaxLimit : StartRun("w1", limit, BOOLEAN)
               \/ \E script \in AnswersAtOnce(OracleResults) : ProcessPost("w1", {"none"}, {script})
               \/ Return("w1"))

\* One sweep at a time against an oracle that may also answer with a
\* confidence outside 0..1 (1.5, -0.2; in hundredths).
RangeNext ==
    \/ Ingest({"c1"}, LeadItems)
    \/ \E limit \in 1..MaxLimit : StartRun("w1", limit, {FALSE})
    \/ \E script \in AnswersAtOnce(OracleResults \cup
                      { [is_frustrated |-> TRUE, confidence |-> 150, reason |-> "llm",
                         suggested_service |-> "svc"],
                        [is_frustrated |-> FALSE, confidence |-> -20, reason |-> "llm",
                         suggested_service |-> "none"] }) :
          ProcessPost("w1", {"none"}, {script})
    \/ Return("w1")

RangeSpec == Init /\ [][RangeNext]_vars

\* The source adapters alone: one adapter collects a batch of fetched items
\* with a keyword set, then once more over the same items.
Frustrated == Text(0, <<"frustrated">>)

FeedItems ==
    { [id |-> Text(0, <<"n1">>), url |-> Text(0, <<"u1">>), title |-> EmptyText,
       content |-> Text(0, <<"so", "FRUSTRATED">>)],
      [id |-> Text(0, <<"n2">>), url |-> Text(0, <<"u1">>), title |-> Frustrated,
       content |-> EmptyText],
      [id |-> Text(0, <<"n3">>), url |-> Text(0, <<"u1">>), title |-> Text(0, <<"happy">>),
       content |-> Text(0, <<"happy">>)],
      [id |-> Text(0, <<"n4">>), url |-> Text(0, <<"u1">>), title |-> Text(1, <<>>),
       content |-> EmptyText],
      [id |-> Text(0, <<"n5">>), url |-> Text(0, <<"u1">>), title |-> Text(500, <<"frustrated">>),
       content |-> EmptyText],
      [id |-> EmptyText, url |-> Text(0, <<"u2">>), title |-> EmptyText, content |-> Frustrated],
      [id |-> EmptyText, url |-> EmptyText, title |-> EmptyText, content |-> Frustrated],
      [id |-> EmptyText, url |-> EmptyText, title |-> EmptyText, content |-> EmptyText] }

SourceAdapters == {"reddit", "apify", "devto", "hackernews", "mastodon"}

\* The batches a fetch delivers are the sequences of 1..MaxBatch items of
\* the adapter's pool: the items of the public APIs always have an id, and a
\* Mastodon status has a content and no title.
AdapterInit ==
    /\ raw_posts = <<>>
    /\ analyzed_posts = <<>>
    /\ leads = <<>>
    /\ settings = DEFAULT_SETTINGS
    /\ webhook_calls = EmptyBag
    /\ webhook_failed = {}
    /\ cpc = [c \in Collectors |-> "idle"]
    /\ cpost = [c \in Collectors |-> NoPost]
    /\ cdup = [c \in Collectors |-> FALSE]
    /\ cstored = [c \in Collectors |-> FALSE]
    /\ cret = [c \in Collectors |-> "init"]
    /\ pc = [w \in Workers |-> "idle"]
    /\ via = [w \in Workers |-> "cli"]
    /\ snap = [w \in Workers |-> DEFAULT_SETTINGS]
    /\ batch = [w \in Workers |-> <<>>]
    /\ idx = [w \in Workers |-> 1]
    /\ stats = [w \in Workers |-> ZeroStats]
    /\ raised = [w \in Workers |-> {}]
    /\ lead_ret = NoLeadRet
    /\ tasks = EmptyRegistry
    /\ cli_tasks = [w \in Workers |-> EmptyRegistry]
    /\ cl = NoClassifyCall
    /\ csweep = NoSweep
    /\ tcall = NoTrackerCall
    /\ poll = NoPoll
    /\ trace = <<>>
    /\ clobbered = FALSE
    /\ \E adapter \in SourceAdapters \cup {"manual"},
          keywords \in { {}, {"Frustrated"} } :
          \E items \in
               LET pool == CASE adapter = "apify"    -> FeedItems
                             [] adapter = "mastodon" ->
                                  { [it EXCEPT !.title = EmptyText,
                                               !.content = TextOr(it.content, it.title)] :
                                       it \in { f \in FeedItems : text_truthy(f.id) } }
                             [] OTHER -> { it \in FeedItems : text_truthy(it.id) }
               IN  UNION { [1..n -> pool] : n \in 1..MaxBatch } :
             arun = [NoAdapterRun EXCEPT !.pc = "run", !.adapter = adapter,
                                         !.platform = IF adapter = "apify" THEN "twitter"
                                                      ELSE adapter,
                                         !.keywords = keywords, !.items = items,
                                         !.pos = 1, !.run = 1]

AdapterNext ==
    \/ \E fault \in {"none", "race", "error"} : AdapterItem({fault})
    \/ AdapterReturn
    \/ AdapterAgain

AdapterSpec == AdapterInit /\ [][AdapterNext]_vars

\* The tracker alone: direct calls of its methods, with every total and
\* current for the collect task and the totals run_pipeline's empty path
\* meets for the analyze task.
TrackerNext ==
    \/ TrackerCall({"collect"}, 0..MaxTotal, 0..MaxTotal)
    \/ TrackerCall({"analyze"}, {0}, {0})

TrackerSpec == Init /\ [][TrackerNext]_vars

\* Analysis sweeps started through the dashboard that overlap: a request
\* starts a thread whether or not another one runs.  The posts in the store
\* are ones the sentiment filter skips.
OverlapNext ==
    \/ Ingest({"c1"}, { it \in SweepItems : it.content = "pos" })
    \/ \E w \in Workers : ApiAnalyze(w)
    \/ \E w \in Workers, limit \in 1..MaxLimit :
          pc[w] = "spawned" /\ StartRun(w, limit, BOOLEAN)
    \/ \E w \in Workers, script \in AnswersAtOnce(OracleResults) : ProcessPost(w, {"none"}, {script})
    \/ \E w \in Workers : Return(w)

OverlapSpec == Init /\ [][OverlapNext]_vars

\* One sweep at a time with the calls of the classifier on record; any step
\* of an iteration may raise and the oracle may fail on every call.
TraceNext ==
    \/ Ingest({"c1"}, SweepItems)
    \/ \E limit \in 1..MaxLimit : StartRun("w1", limit, {FALSE})
    \/ \E fault \in {"none", "classify", "insert", "lead", "notify"},
          script \in AnswersAtOnce(OracleResults) \cup AlwaysFails :
          ProcessPostStep("w1", {fault}, {script}, TRUE)
    \/ Return("w1")

TraceSpec == Init /\ [][TraceNext]_vars

\* The tracker and a poller of /api/task-status: a collect task that is
\* started, updated, completed and failed while the poller asks for the
\* status of one type or of all.
PollNext ==
    \/ TrackerCall({"collect"}, {CollectTotal}, {1, CollectTotal})
    \/ \E task_type \in TaskTypes \cup {"None"} : GetStatus({task_type})

PollSpec == Init /\ [][PollNext]_vars

\* The classification stage alone: calls of classify_post against every
\* oracle behaviour over the first DefaultMaxRetries calls.
ClassifyPayloads ==
    { JsonOf(res) : res \in { r \in OracleResults : r.confidence >= 80 } }
    \cup { [is_frustrated |-> "'false'", confidence |-> 70, reason |-> "llm",
            suggested_service |-> "none"] }

ClassifyResponses ==
    { TransportError, TextResponse("none", "garbage", NoPayload),
      TextResponse("none", "array", NoPayload) }
    \cup { TextResponse(f, "object", p) : f \in {"none", "block", "inline"}, p \in ClassifyPayloads }

ClassifyInit ==
    /\ raw_posts = <<>>
    /\ analyzed_posts = <<>>
    /\ leads = <<>>
    /\ settings = DEFAULT_SETTINGS
    /\ webhook_calls = EmptyBag
    /\ webhook_failed = {}
    /\ cpc = [c \in Collectors |-> "idle"]
    /\ cpost = [c \in Collectors |-> NoPost]
    /\ cdup = [c \in Collectors |-> FALSE]
    /\ cstored = [c \in Collectors |-> FALSE]
    /\ cret = [c \in Collectors |-> "init"]
    /\ pc = [w \in Workers |-> "idle"]
    /\ via = [w \in Workers |-> "cli"]
    /\ snap = [w \in Workers |-> DEFAULT_SETTINGS]
    /\ batch = [w \in Workers |-> <<>>]
    /\ idx = [w \in Workers |-> 1]
    /\ stats = [w \in Workers |-> ZeroStats]
    /\ raised = [w \in Workers |-> {}]
    /\ lead_ret = NoLeadRet
    /\ tasks = EmptyRegistry
    /\ cli_tasks = [w \in Workers |-> EmptyRegistry]
    /\ csweep = NoSweep
    /\ tcall = NoTrackerCall
    /\ arun = NoAdapterRun
    /\ poll = NoPoll
    /\ trace = <<>>
    /\ clobbered = FALSE
    /\ \E script \in [1..DefaultMaxRetries -> ClassifyResponses],
          max_retries \in 0..DefaultMaxRetries, api_key \in BOOLEAN :
          cl = [NoClassifyCall EXCEPT !.script = script, !.max_retries = max_retries,
                                      !.api_key = api_key]

ClassifySpec == ClassifyInit /\ [][ClassifyCall]_vars

\* ================================================================== claims

SameKey(a, b) == a.platform = b.platform /\ a.post_id = b.post_id

AnalysesOf(rid) == { i \in DOMAIN analyzed_posts : analyzed_posts[i].raw_post_id = rid }

\* C1: an insert_raw_post call that starts when a post with the same
\* (platform, post_id) is already stored returns None and leaves raw_posts as
\* it is, whatever the other fields of its post are; a call for a key that is
\* not stored returns the row it appended; and after either call exactly one
\* row has that key.
C1_InsertRawPostIdempotent ==
    [][ \A c \in Collectors :
          (cpc[c] = "checked" /\ cpc'[c] = "idle") =>
             LET p == cpost[c] IN
             /\ cstored[c] => (cret'[c] = "dup" /\ raw_posts' = raw_posts)
             /\ RowsWithKey(raw_posts, p.platform, p.post_id) = {}
                   => (cret'[c] = "row" /\ raw_posts' = Append(raw_posts, p))
             /\ Cardinality(RowsWithKey(raw_posts', p.platform, p.post_id)) = 1
      ]_vars

\* a second call, with other title/content than the stored row, was answered
\* with None and the key still has its one row
C1_Witness ==
    \E c \in Collectors :
        /\ cpc[c] = "idle"
        /\ cret[c] = "dup"
        /\ Cardinality(RowsWithKey(raw_posts, cpost[c].platform, cpost[c].post_id)) = 1
        /\ \E i \in DOMAIN raw_posts :
              SameKey(raw_posts[i], cpost[c]) /\ raw_posts[i] # cpost[c]

\* C2: in every reachable state raw_posts holds at most one row per
\* (platform, post_id), also when two collectors both pass check_duplicate
\* for the same post before either inserts.
C2_RawPostsUnique ==
    \A i, j \in DOMAIN raw_posts : SameKey(raw_posts[i], raw_posts[j]) => i = j

\* both collectors passed the pre-check for one key; the later insert was
\* rejected by the store
C2_Witness ==
    \E c, d \in Collectors :
        /\ c # d
        /\ cret[c] = "raised" /\ cret[d] = "row"
        /\ SameKey(cpost[c], cpost[d])

\* C3: in every reachable state no RawPost has more than one AnalyzedPost,
\* also when two analyze sweeps overlap.
C3_OneAnalysisPerRawPost ==
    \A i, j \in DOMAIN analyzed_posts :
        analyzed_posts[i].raw_post_id = analyzed_posts[j].raw_post_id => i = j

\* C4: when analyze runs are made one after the other, no post that still
\* waits in a run's fetched batch has an AnalyzedPost, and no RawPost gets a
\* second AnalyzedPost.
C4_SelectionExcludesAnalyzed ==
    /\ \A w \in Workers :
          pc[w] = "loop" =>
             \A k \in idx[w]..Len(batch[w]) : AnalysesOf(batch[w][k]) = {}
    /\ \A rid \in DOMAIN raw_posts : Cardinality(AnalysesOf(rid)) <= 1

\* a later run over a store in which an earlier run analyzed a newer post:
\* the batch holds an older post and not the analyzed one
C4_Witness ==
    \E w \in Workers :
        /\ pc[w] = "loop" /\ idx[w] = 1 /\ batch[w] # <<>>
        /\ \E rid \in DOMAIN raw_posts :
              /\ AnalysesOf(rid) # {}
              /\ rid > batch[w][1]
              /\ rid \notin Range(batch[w])

\* C5: a promotion step (insert_lead, then the notification if a lead came
\* back) for an AnalyzedPost that already has a Lead raises nothing, returns
\* no lead, leaves leads, the notifications and the run statistics as they
\* are; after any promotion step the AnalyzedPost has exactly one Lead.
C5_InsertLeadIdempotent ==
    [][ (UNCHANGED <<idx, pc, cpc, settings>>) =>
           LET aid == lead_ret'.aid IN
           /\ ~lead_ret'.raised
           /\ Cardinality(LeadsOf(leads', aid)) = 1
           /\ LeadsOf(leads, aid) # {} =>
                 /\ lead_ret'.row = 0
                 /\ leads' = leads
                 /\ webhook_calls' = webhook_calls
                 /\ stats' = stats
      ]_vars

\* the second promotion of an AnalyzedPost came back empty while the webhook
\* is configured; its Lead was notified once
C5_Witness ==
    /\ lead_ret.aid # 0
    /\ lead_ret.row = 0
    /\ settings.n8n_webhook_url # ""
    /\ \E l \in DOMAIN leads :
          /\ leads[l].analyzed_post_id = lead_ret.aid
          /\ CopiesIn(l, webhook_calls) = 1

\* C6: in every reachable state at most one Lead references a given RawPost.
C6_OneLeadPerRawPost ==
    \A i, j \in DOMAIN leads : leads[i].raw_post_id = leads[j].raw_post_id => i = j

\* C7: every Lead is created with status "new", by the iteration that stored
\* its AnalyzedPost, from a classification with is_frustrated = true and
\* confidence >= the confidence_threshold of that run; a classification that
\* is not frustrated or is below that threshold gets no Lead.
C7_LeadsOnlyAboveBar ==
    [][ /\ \A l \in DOMAIN leads' :
              /\ leads'[l].status = "new"
              /\ analyzed_posts'[leads'[l].analyzed_post_id].is_frustrated
        /\ \A w \in Workers :
              idx'[w] = idx[w] + 1 =>
                 /\ \A l \in (Len(leads) + 1)..Len(leads') :
                       LET a == analyzed_posts'[leads'[l].analyzed_post_id] IN
                       /\ leads'[l].analyzed_post_id > Len(analyzed_posts)
                       /\ leads'[l].raw_post_id = batch[w][idx[w]]
                       /\ a.is_frustrated
                       /\ a.confidence >= snap[w].confidence_threshold
                 /\ \A aid \in (Len(analyzed_posts) + 1)..Len(analyzed_posts') :
                       LET a == analyzed_posts'[aid] IN
                       (~a.is_frustrated \/ a.confidence < snap[w].confidence_threshold)
                          => LeadsOf(leads', aid) = {}
        /\ (\A w \in Workers : idx'[w] # idx[w] + 1) => leads' = leads
      ]_vars

\* a Lead exists, and a frustrated classification with confidence 0.80 made
\* by a run whose threshold was 0.90 has none
C7_Witness ==
    /\ leads # <<>>
    /\ \E aid \in DOMAIN analyzed_posts :
          /\ analyzed_posts[aid].is_frustrated
          /\ analyzed_posts[aid].confidence = 80
          /\ LeadsOf(leads, aid) = {}

\* C8: when a run returns, every post of its batch whose processing raised
\* no exception has exactly one AnalyzedPost.
C8_BatchFullyAnalyzed ==
    \A w \in Workers :
        (pc[w] = "loop" /\ idx[w] > Len(batch[w])) =>
            \A k \in DOMAIN batch[w] :
                batch[w][k] \notin raised[w] => Cardinality(AnalysesOf(batch[w][k])) = 1

HasText(post) == strip(StrOr(post.content, post.title)) # ""

\* C9: with ingestion stopped and no processing errors, repeating
\* analyze(limit) eventually gives every stored RawPost with text an
\* AnalyzedPost.
C9_EventuallyAllAnalyzed ==
    <>(\A rid \in DOMAIN raw_posts : HasText(raw_posts[rid]) => AnalysesOf(rid) # {})

\* C10: for the score S of a post's text and the run's threshold T, the
\* filter passes the post exactly when S <= T.  When it does not, the run
\* counts the post in sentiment_skipped, makes no Lead, and (unless the store
\* raises) appends an AnalyzedPost with is_frustrated = false, confidence 0.0,
\* sentiment_score S and a reason that carries S printed with three decimals.
\* When it does, the post is counted in sentiment_passed and gets no such record.
C10_SentimentSkip ==
    [][ \A w \in Workers :
          (idx'[w] = idx[w] + 1 /\ HasText(raw_posts[batch[w][idx[w]]])) =>
             LET rid  == batch[w][idx[w]]
                 text == StrOr(raw_posts[rid].content, raw_posts[rid].title)
                 S    == get_sentiment_score(text)
                 T    == snap[w].sentiment_threshold
             IN
             /\ passes_sentiment_filter(text, T) <=> S <= T
             /\ S > T =>
                   /\ stats'[w].sentiment_skipped = stats[w].sentiment_skipped + 1
                   /\ stats'[w].sentiment_passed = stats[w].sentiment_passed
                   /\ leads' = leads
                   /\ stats'[w].errors = stats[w].errors =>
                         analyzed_posts' = Append(analyzed_posts,
                             [raw_post_id     |-> rid,
                              is_frustrated   |-> FALSE,
                              confidence      |-> 0,
                              reason          |-> [kind |-> "Filtered by sentiment",
                                                   score |-> (S + 5) \div 10],
                              sentiment_score |-> S])
             /\ S <= T =>
                   /\ stats'[w].sentiment_passed = stats[w].sentiment_passed + 1
                   /\ stats'[w].sentiment_skipped = stats[w].sentiment_skipped
                   /\ \A aid \in (Len(analyzed_posts) + 1)..Len(analyzed_posts') :
                         analyzed_posts'[aid].reason.kind = "llm"
      ]_vars

\* a run with threshold -0.6124 classified a post whose score is exactly
\* -0.6124, and a post above the threshold has its filter record
C10_Witness ==
    \E w \in Workers :
        /\ pc[w] = "loop" /\ idx[w] > 1
        /\ snap[w].sentiment_threshold = -6124
        /\ \E aid \in AnalysesOf(batch[w][1]) :
              /\ analyzed_posts[aid].reason.kind = "llm"
              /\ analyzed_posts[aid].sentiment_score = -6124
        /\ \E aid \in DOMAIN analyzed_posts :
              /\ analyzed_posts[aid].reason.kind = "Filtered by sentiment"
              /\ analyzed_posts[aid].sentiment_score > -500

\* an oracle call that fails: a transport error or a text that is not JSON
OracleFails(r) == r.kind = "error" \/ (r.kind = "text" /\ r.body = "garbage")

\* an oracle call that returns a valid payload: a JSON object, bare or in a
\* fenced block, whose is_frustrated is a JSON boolean
OracleValid(r) ==
    /\ r.kind = "text" /\ r.body = "object"
    /\ r.fence \in {"none", "block"}
    /\ r.payload.is_frustrated \in {"true", "false"}

\* C11: classify_post (with an API key configured) calls the oracle at most
\* max_retries times; when the first k calls fail (transport error or
\* malformed JSON), k < max_retries, and call k+1 returns a valid payload, it
\* makes exactly k+1 calls and returns that payload's values.
C11_ClassifyStopsAtFirstValid ==
    (cl.done /\ cl.api_key) =>
       /\ ~cl.out.raised
       /\ cl.out.calls <= cl.max_retries
       /\ \A k \in 0..(cl.max_retries - 1) :
             ( /\ \A i \in 1..k : OracleFails(cl.script[i])
               /\ OracleValid(cl.script[k + 1]) )
             => /\ cl.out.calls = k + 1
                /\ cl.out.result.is_frustrated = (cl.script[k + 1].payload.is_frustrated = "true")
                /\ cl.out.result.confidence = cl.script[k + 1].payload.confidence
                /\ cl.out.result.reason = cl.script[k + 1].payload.reason
                /\ cl.out.result.suggested_service = cl.script[k + 1].payload.suggested_service

\* malformed JSON twice, then a valid payload in a fenced block: three calls
\* with the default max_retries, and the payload came back
C11_Witness ==
    /\ cl.done /\ cl.api_key /\ cl.max_retries = DefaultMaxRetries
    /\ cl.script[1].body = "garbage" /\ cl.script[2].body = "garbage"
    /\ cl.script[1].kind = "text" /\ cl.script[2].kind = "text"
    /\ OracleValid(cl.script[3]) /\ cl.script[3].fence = "block"
    /\ cl.out.calls = 3
    /\ cl.out.result.is_frustrated /\ cl.out.result.confidence = 80

\* C12: when every one of the max_retries oracle calls fails, classify_post
\* raises nothing and returns is_frustrated = false, confidence = 0.0,
\* reason = "classification failed", suggested_service = "none".
C12_SafeDefaultOnExhaustion ==
    ( /\ cl.done /\ cl.api_key /\ cl.max_retries > 0
      /\ \A i \in 1..cl.max_retries : OracleFails(cl.script[i]) )
    => /\ ~cl.out.raised
       /\ cl.out.result = [is_frustrated |-> FALSE, confidence |-> 0,
                           reason |-> "classification failed",
                           suggested_service |-> "none"]

\* C13: a step that inserts a lead while a webhook URL is configured attempts
\* exactly one notification, carrying that lead's id; when the attempt raises
\* or times out the run counts no error for the post and goes on, and the
\* Lead and its AnalyzedPost are stored and stay stored.  A step that inserts
\* no lead (insert_lead returned none) attempts no notification.
C13_NotifyBestEffort ==
    [][ /\ Len(leads') >= Len(leads) /\ SubSeq(leads', 1, Len(leads)) = leads
        /\ Len(analyzed_posts') >= Len(analyzed_posts)
        /\ SubSeq(analyzed_posts', 1, Len(analyzed_posts)) = analyzed_posts
        /\ leads' = leads => webhook_calls' = webhook_calls
        /\ (leads' # leads /\ settings.n8n_webhook_url # "") =>
               /\ Len(leads') = Len(leads) + 1
               /\ webhook_calls' = webhook_calls (+) SetToBag({Len(leads')})
        /\ \A l \in webhook_failed' \ webhook_failed :
               /\ l = Len(leads') /\ leads' # leads
               /\ CopiesIn(l, webhook_calls') = 1
               /\ leads'[l].analyzed_post_id \in DOMAIN analyzed_posts'
               /\ \A w \in Workers :
                     idx'[w] = idx[w] + 1 =>
                        /\ stats'[w].errors = stats[w].errors
                        /\ raised'[w] = raised[w]
                        /\ pc'[w] = "loop" /\ batch'[w] = batch[w]
      ]_vars

\* a run of two posts: the notification of the first post's lead failed, no
\* error was counted, the second post was analyzed, and the lead is stored
C13_Witness ==
    \E w \in Workers :
        /\ pc[w] = "loop" /\ Len(batch[w]) = 2 /\ idx[w] = 3
        /\ stats[w].errors = 0
        /\ AnalysesOf(batch[w][2]) # {}
        /\ \E l \in webhook_failed :
              /\ l \in DOMAIN leads
              /\ leads[l].raw_post_id = batch[w][1]
              /\ CopiesIn(l, webhook_calls) = 1

\* C14: an iteration of run_pipeline in which an exception is raised
\* (sentiment scoring, classification or the analysis insert) adds exactly
\* one to errors and the run goes on with the next post of the same batch;
\* an iteration without exception leaves errors as it is; run_pipeline
\* returns after the last post of the batch, with one error per failed post.
C14_ErrorIsolatedPerPost ==
    [][ \A w \in Workers :
          /\ (pc[w] = "loop" /\ idx'[w] # idx[w]) =>
                IF pc'[w] = "loop"
                  THEN /\ idx'[w] = idx[w] + 1
                       /\ batch'[w] = batch[w]
                       /\ stats'[w].errors =
                             stats[w].errors + (IF raised'[w] # raised[w] THEN 1 ELSE 0)
                       /\ stats'[w].posts_fetched = stats[w].posts_fetched
                  ELSE /\ idx[w] = Len(batch[w]) + 1
                       /\ stats[w].errors = Cardinality(raised[w])
          /\ (pc[w] = "loop" /\ pc'[w] = "idle") =>
                /\ idx[w] = Len(batch[w]) + 1
                /\ stats[w].errors = Cardinality(raised[w])
      ]_vars

\* a run of two posts with text: scoring the first raised (it is counted as an
\* error and in no other counter), the second was analyzed afterwards
C14_Witness ==
    \E w \in Workers :
        /\ pc[w] = "loop" /\ Len(batch[w]) = 2 /\ idx[w] = 3
        /\ raised[w] = {batch[w][1]}
        /\ stats[w].errors = 1
        /\ stats[w].sentiment_passed + stats[w].sentiment_skipped = 1
        /\ HasText(raw_posts[batch[w][1]])
        /\ AnalysesOf(batch[w][2]) # {}

\* C15: when a fetch of the source that just ran failed (for Mastodon: of one
\* of its instances), the sweep is still running and goes on to the next
\* source, the stats that source returned carry an "error" field and
\* posts_inserted = 0, and a source all of whose fetches failed stored no post.
C15_FailedSourceIsolated ==
    ( /\ csweep.pc = "run" /\ csweep.via = "cli" /\ csweep.pos > 1
      /\ \E i \in DOMAIN csweep.last : csweep.last[i] = "fail" )
    => /\ csweep.pos <= Len(SweepOrder) + 1
       /\ \E j \in DOMAIN csweep.all_stats :
             /\ \/ csweep.all_stats[j].platform = SweepOrder[csweep.pos - 1]
                \/ SweepOrder[csweep.pos - 1] = "apify"
             /\ csweep.all_stats[j].error /\ csweep.all_stats[j].posts_inserted = 0
       /\ (\A i \in DOMAIN csweep.last : csweep.last[i] = "fail")
             => Len(raw_posts) = csweep.before

\* C16: update_progress on a started task sets current to the value given and
\* percent to round(100 * current / total), or to 0 when total is 0; with a
\* total of 5 the currents 1..5 report 20, 40, 60, 80, 100.
C16_PercentIsRoundedRatio ==
    [][ LET \* p is num / den rounded to the nearest integer, a tie going to the even one
            IsRounded(p, num, den) ==
                LET d == IF num >= p * den THEN num - p * den ELSE p * den - num IN
                /\ 2 * d <= den
                /\ (2 * d = den => p % 2 = 0)
        IN
        \A t \in TaskTypes :
          (tcall'.op = "update" /\ tcall'.task_type = t /\ tasks[t].present) =>
             /\ tasks'[t].current = tcall'.current
             /\ tasks'[t].total = tasks[t].total
             /\ tasks[t].total = 0 => tasks'[t].percent = 0
             /\ tasks[t].total > 0 =>
                   IsRounded(tasks'[t].percent, 100 * tcall'.current, tasks[t].total)
             /\ (tasks[t].total = 5 /\ tcall'.current \in 1..5) =>
                   tasks'[t].percent = 20 * tcall'.current ]_vars

\* update_progress(collect, 3) has just been called on a task started with
\* total 5, and 60 percent is reported
C16_Witness ==
    /\ tcall.op = "update" /\ tcall.task_type = "collect" /\ tcall.current = 3
    /\ tcall.before.present /\ tcall.before.total = 5
    /\ tasks["collect"].percent = 60 /\ tasks["collect"].current = 3

\* C17: start_task replaces the whole entry of the task type, whatever it
\* was: status running, current 0, percent 0, the total and message given,
\* and no result of an earlier run.
C17_StartReplacesEntry ==
    [][ \A t \in TaskTypes :
          (tcall'.op = "start" /\ tcall'.task_type = t) =>
             /\ tasks'[t].present
             /\ tasks'[t].status = "running"
             /\ tasks'[t].current = 0
             /\ tasks'[t].percent = 0
             /\ tasks'[t].total = tcall'.total
             /\ tasks'[t].message = tcall'.message
             /\ ~tasks'[t].has_result ]_vars

\* a second start_task came while the first sweep was running and had made
\* progress: its progress is gone
C17_Witness ==
    /\ tcall.op = "start" /\ tcall.task_type = "collect"
    /\ tcall.before.status = "running" /\ tcall.before.current = 3
    /\ tcall.before.percent = 60
    /\ tasks["collect"].current = 0 /\ tasks["collect"].percent = 0

\* C18: on a started task complete_task sets status completed, percent 100,
\* the message and the result and nothing else; fail_task sets status failed
\* and a message holding the error text, and leaves current, total and
\* percent as they were.
C18_CompleteAndFailEffects ==
    [][ \A t \in TaskTypes :
          /\ (tcall'.op = "complete" /\ tcall'.task_type = t /\ tasks[t].present) =>
                /\ tasks'[t].status = "completed"
                /\ tasks'[t].percent = 100
                /\ tasks'[t].message = tcall'.message
                /\ tasks'[t].has_result /\ tasks'[t].result = tcall'.result
                /\ tasks'[t].current = tasks[t].current
                /\ tasks'[t].total = tasks[t].total
          /\ (tcall'.op = "fail" /\ tcall'.task_type = t /\ tasks[t].present) =>
                /\ tasks'[t].status = "failed"
                /\ tasks'[t].message.text = tcall'.error
                /\ tasks'[t].current = tasks[t].current
                /\ tasks'[t].total = tasks[t].total
                /\ tasks'[t].percent = tasks[t].percent ]_vars

\* fail_task has just been called on a sweep that had reached 60 percent:
\* the entry is failed and still reports 3 of 5, 60 percent
C18_Witness ==
    /\ tcall.op = "fail" /\ tcall.task_type = "collect"
    /\ tcall.before.status = "running" /\ tcall.before.percent = 60
    /\ tasks["collect"].status = "failed"
    /\ tasks["collect"].current = 3 /\ tasks["collect"].total = 5
    /\ tasks["collect"].percent = 60
    /\ tasks["collect"].message.text = "boom"

\* a dashboard sweep of the task type is between its request handler and the
\* end of its worker thread
SweepInFlight(t) ==
    IF t = "collect"
      THEN csweep.via = "api" /\ csweep.pc \in {"spawned", "run"}
      ELSE \E w \in Workers : via[w] = "api" /\ pc[w] \in {"spawned", "loop"}

\* C19: while a dashboard sweep is in flight, and no other sweep of its type
\* overlaps it, the percent of its entry never decreases, up to and including
\* the step that completes or fails it.
C19_PercentMonotoneInSweep ==
    [][ \A t \in TaskTypes :
          SweepInFlight(t) => tasks'[t].percent >= tasks[t].percent ]_vars

\* both sweeps are half way: analyze after 1 of 2 posts, collect after 3 of 5
\* reports
C19_Witness ==
    /\ SweepInFlight("analyze") /\ tasks["analyze"].status = "running"
    /\ tasks["analyze"].total = 2 /\ tasks["analyze"].percent = 50
    /\ SweepInFlight("collect") /\ tasks["collect"].status = "running"
    /\ tasks["collect"].percent = 60

\* C20: when the settings read raises at the beginning of the worker thread of
\* a dashboard sweep, the entry of that task type ends failed with a message
\* holding the exception text, and the entry of the other type is untouched.
C20_FailedStartIsReported ==
    [][ /\ (csweep.pc = "spawned" /\ csweep'.pc = "idle") =>
             /\ tasks'["collect"].status = "failed"
             /\ tasks'["collect"].message.text = StoreError
             /\ tasks'["analyze"] = tasks["analyze"]
        /\ \A w \in Workers :
             (pc[w] = "spawned" /\ pc'[w] = "idle") =>
                /\ tasks'["analyze"].status = "failed"
                /\ tasks'["analyze"].message.text = StoreError
                /\ tasks'["collect"] = tasks["collect"] ]_vars

\* the analyze sweep could not start while a collect sweep was at 3 of 5
C20_Witness ==
    /\ pc["w1"] = "idle"
    /\ tasks["analyze"].status = "failed"
    /\ tasks["analyze"].message = [prefix |-> "Error: ", text |-> StoreError, args |-> <<>>]
    /\ SweepInFlight("collect") /\ tasks["collect"].status = "running"
    /\ tasks["collect"].current = 3

\* the number of the calls 1..n of the script that did not return a result
RECURSIVE FailedCalls(_, _)
FailedCalls(script, n) ==
    IF n = 0 THEN 0
    ELSE FailedCalls(script, n - 1) + (IF attempt_returns(script[n]) THEN 0 ELSE 1)

\* C30: the wait after failed attempt number a (from 0) is 2^a seconds and
\* no wait follows the last attempt: an oracle that always fails gives
\* max_retries - 1 waits, 1 s then 2 s for max_retries = 3.
C30_BackoffWaits ==
    (cl.done /\ cl.api_key) =>
       LET failed == FailedCalls(cl.script, cl.out.calls)
           waits  == cl.out.waits
       IN  /\ \A a \in 0..(Len(waits) - 1) : waits[a + 1] = 2^a
           /\ failed < cl.max_retries => Len(waits) = failed
           /\ (failed = cl.max_retries /\ cl.max_retries > 0) =>
                 Len(waits) = cl.max_retries - 1
           /\ (failed = 3 /\ cl.max_retries = 3) => waits = <<1, 2>>

\* three attempts, all failed: the sleeps were 1 s and 2 s
C30_Witness ==
    /\ cl.done /\ cl.api_key /\ cl.max_retries = 3
    /\ \A i \in 1..3 : OracleFails(cl.script[i])
    /\ cl.out.calls = 3
    /\ cl.out.waits = <<1, 2>>

\* C24: every stored analysis row and every lead has a confidence within
\* 0.0 .. 1.0 (0 .. 100 hundredths), whatever number the oracle answered.
C24_ConfidenceInUnitRange ==
    /\ \A i \in DOMAIN analyzed_posts : analyzed_posts[i].confidence \in 0..100
    /\ \A i \in DOMAIN leads : leads[i].confidence \in 0..100

\* C28: when run_pipeline returns, posts_fetched = sentiment_skipped +
\* frustrated_detected + not_frustrated + errors: every post of the batch is
\* counted in exactly one of the four.
C28_StatsPartitionBatch ==
    \A w \in Workers :
       (pc[w] = "loop" /\ idx[w] > Len(batch[w])) =>
          stats[w].posts_fetched =
             stats[w].sentiment_skipped + stats[w].frustrated_detected
               + stats[w].not_frustrated + stats[w].errors

\* C23: a run uses the settings it read at its start for every post: an
\* iteration writes no setting, promotes by the snapshot's confidence
\* threshold, and notifies the sink for a new lead exactly when the
\* snapshot has a webhook url, whatever the settings table holds by then.
C23_SnapshotGovernsRun ==
    [][ \A w \in Workers :
          (pc[w] = "loop" /\ idx'[w] = idx[w] + 1) =>
             /\ settings' = settings
             /\ Len(leads') > Len(leads) =>
                   /\ leads'[Len(leads')].confidence >= snap[w].confidence_threshold
                   /\ (webhook_calls' # webhook_calls \/ webhook_failed' # webhook_failed)
                        <=> snap[w].n8n_webhook_url # "" ]_vars

\* the step is one pass of the adapter's loop, over the item arun.items[arun.pos]
IsAdapterItemStep == arun.pc = "run" /\ arun.pos <= Len(arun.items) /\ arun'.pos > arun.pos

\* some keyword is, letter case aside, a word of the item's title or content
KeywordHit(item, keywords) ==
    \E kw \in keywords : \E t \in {item.title, item.content} :
       \E i \in DOMAIN t.words : lower(t.words[i]) = lower(kw)

\* C21: with an empty keyword set every fetched item with non-empty text is
\* handed to the ingest sink; with a non-empty set an item is handed on
\* exactly when some keyword is a case-insensitive substring of its
\* title+content.  In every adapter.
C21_KeywordFilter ==
    [][ (IsAdapterItemStep /\ arun.adapter \in SourceAdapters) =>
          LET item == arun.items[arun.pos] IN
          /\ (arun.keywords = {} /\ ~(text_blank(item.title) /\ text_blank(item.content)))
                => arun'.last.handed
          /\ arun.keywords # {}
                => (arun'.last.handed <=> KeywordHit(item, arun.keywords)) ]_vars

\* C22: in the Apify, Dev.to, Hacker News and Mastodon adapters, with the
\* store working, a fetched item with non-empty text that matches the
\* keywords and is not yet stored is persisted and counted in posts_inserted,
\* and a non-matching one is counted in filtered_out (3 items of which 2
\* match: fetched 3, filtered_out 1, inserted 2).
C22_MatchedItemsAreInserted ==
    [][ ( /\ IsAdapterItemStep
          /\ arun.adapter \in {"apify", "devto", "hackernews", "mastodon"}
          /\ arun'.faulted = arun.faulted ) =>
          LET item     == arun.items[arun.pos]
              nonblank == ~(text_blank(item.title) /\ text_blank(item.content))
              match    == arun.keywords = {} \/ KeywordHit(item, arun.keywords)
          IN
          /\ arun'.counts.items_fetched = arun.counts.items_fetched + 1
          /\ ( /\ nonblank /\ match /\ text_truthy(item.id)
               /\ \A i \in DOMAIN raw_posts :
                     ~( /\ raw_posts[i].platform = arun.platform
                        /\ raw_posts[i].post_id = NativeId(item.id) ) ) =>
                 /\ arun'.counts.posts_inserted = arun.counts.posts_inserted + 1
                 /\ Len(raw_posts') = Len(raw_posts) + 1
                 /\ raw_posts'[Len(raw_posts')].platform = arun.platform
                 /\ raw_posts'[Len(raw_posts')].post_id = NativeId(item.id)
          /\ (nonblank /\ ~match) =>
                 arun'.counts.filtered_out = arun.counts.filtered_out + 1 ]_vars

\* C25: in every adapter a uniqueness violation raised by the store during
\* the insert (a concurrent collector stored the post after the duplicate
\* check) counts the post in duplicates_skipped, like a duplicate the check
\* found, and the adapter goes on to the next post of the batch.
C25_UniqueViolationIsDuplicate ==
    [][ ( /\ IsAdapterItemStep /\ arun.adapter \in SourceAdapters
          /\ arun'.last.ret = "unique violation" ) =>
          /\ arun'.counts.duplicates_skipped = arun.counts.duplicates_skipped + 1
          /\ arun'.counts.posts_inserted = arun.counts.posts_inserted
          /\ arun'.pos = arun.pos + 1 ]_vars

\* C26: no raw post whose title and content are both empty or
\* whitespace-only is ever stored, by any adapter or by the manual import.
C26_NoBlankRawPost ==
    \A i \in DOMAIN raw_posts :
       ~(text_blank(raw_posts[i].title) /\ text_blank(raw_posts[i].content))

\* C27: an item without a native id gets a post_id made of the platform tag
\* and a digest of the first non-empty of url, content, title: when an item
\* of the same platform with the same url, content and title (not all empty)
\* is already stored under a synthesized id, the item gets that same id, and
\* if it reaches the ingest sink it is counted as a duplicate and not stored
\* again.
C27_SynthesizedIdIsStable ==
    [][ ( /\ IsAdapterItemStep /\ arun.adapter = "apify"
          /\ ~text_truthy(arun.items[arun.pos].id) ) =>
          LET item == arun.items[arun.pos]
              pid  == arun'.last.post_id
          IN
          /\ pid.synth /\ pid.prefix = arun.platform
          /\ \A i \in DOMAIN raw_posts :
                ( /\ raw_posts[i].platform = arun.platform /\ raw_posts[i].post_id.synth
                  /\ raw_posts[i].url = item.url /\ raw_posts[i].content = item.content
                  /\ raw_posts[i].title = item.title
                  /\ (text_truthy(item.url) \/ text_truthy(item.content)
                        \/ text_truthy(item.title)) ) =>
                   /\ pid = raw_posts[i].post_id
                   /\ arun'.last.handed =>
                         /\ arun'.last.ret = "dup"
                         /\ raw_posts' = raw_posts
                         /\ arun'.counts.duplicates_skipped =
                              arun.counts.duplicates_skipped + 1 ]_vars

\* the second collection over an unchanged item without native id or url:
\* it reached the sink under the id synthesized from its content and was
\* found to be a duplicate
C27_Witness ==
    /\ arun.pc = "run" /\ arun.adapter = "apify" /\ arun.run = 2 /\ arun.pos = 2
    /\ ~text_truthy(arun.items[1].id) /\ ~text_truthy(arun.items[1].url)
    /\ arun.last.handed /\ arun.last.ret = "dup"
    /\ arun.last.post_id = [synth |-> TRUE, prefix |-> "twitter", v |-> Frustrated]
    /\ \E i \in DOMAIN raw_posts : raw_posts[i].post_id = arun.last.post_id

\* C29: when an adapter's collect returns, every fetched item is in exactly
\* one of the counts of its stats, so items_fetched is their sum, also when
\* an insert failed with an error that is not a duplicate.  (The stats have
\* the counts posts_inserted, duplicates_skipped and filtered_out.)
C29_CountsPartitionFetched ==
    (arun.pc = "done" /\ arun.adapter \in {"apify", "devto", "hackernews", "mastodon"}) =>
       arun.counts.items_fetched =
          arun.counts.posts_inserted + arun.counts.duplicates_skipped
            + arun.counts.filtered_out

\* C39: no post stored by the Apify adapter has an id derived from the
\* current time: a stored synthesized id is the platform tag and the digest
\* of the first non-empty of the row's url, content and title, one of which
\* is non-empty; the items for which _map_to_post falls back to the time are
\* filtered out as empty.
C39_NoTimeBasedIdStored ==
    \A i \in DOMAIN raw_posts :
       raw_posts[i].post_id.synth =>
          LET r == raw_posts[i] IN
          /\ text_truthy(r.url) \/ text_truthy(r.content) \/ text_truthy(r.title)
          /\ r.post_id.prefix = r.platform
          /\ r.post_id.v = Md5_12(TextOr(r.url, TextOr(r.content, r.title)))

\* an item without id, url, content and title went through _process_items:
\* it was mapped to the digest of the time string and filtered out
C39_Witness ==
    /\ arun.adapter = "apify" /\ arun.pc = "run" /\ arun.pos > 1
    /\ arun.last.filtered /\ ~arun.last.handed
    /\ arun.last.post_id.synth
    /\ arun.last.post_id.v \in { Text(0, <<"t1">>), Text(0, <<"t2">>) }
    /\ \A i \in DOMAIN raw_posts : raw_posts[i].post_id # arun.last.post_id

\* C31: update_progress, complete_task and fail_task on a task type that was
\* never started leave the whole registry unchanged, and get_status of a
\* never-started type returns status idle without creating an entry.
C31_NeverStartedIsNoOp ==
    [][ LET c == tcall' IN
        /\ (c.op \in {"update", "complete", "fail"} /\ ~tasks[c.task_type].present)
              => tasks' = tasks
        /\ (c.op = "get_status" /\ c.task_type \in TaskTypes /\ ~tasks[c.task_type].present)
              => /\ tasks' = tasks
                 /\ ~tasks'[c.task_type].present
                 /\ poll'.ret.task.status = "idle" ]_vars

\* complete_task was called for the collect task that was never started,
\* after a poller was told that the analyze task is idle
C31_Witness ==
    /\ tcall.op = "complete" /\ tcall.task_type = "collect" /\ ~tcall.before.present
    /\ poll.held /\ poll.task_type = "analyze" /\ poll.ret.task.status = "idle"
    /\ tasks = EmptyRegistry

C36_StatusIsSnapshot ==
    poll.held =>
       LET seen == IF ~poll.live THEN poll.ret
                   ELSE IF poll.ret.whole THEN [poll.ret EXCEPT !.tasks = tasks]
                   ELSE [poll.ret EXCEPT !.task = tasks[poll.task_type]]
       IN  seen = poll.ret

\* C35: the tracker operations of a sweep leave the entries of the other
\* task types unchanged, however a collect sweep and an analyze sweep
\* interleave: a step of the collect sweep leaves the analyze entry as it
\* is, a step of the analyze sweep the collect entry.
C35_OtherTypesUnchanged ==
    [][ /\ csweep' # csweep => tasks'["analyze"] = tasks["analyze"]
        /\ (pc' # pc \/ idx' # idx) => tasks'["collect"] = tasks["collect"] ]_vars

\* both sweeps are under way and each has reported progress into its entry
C35_Witness ==
    /\ csweep.pc = "run" /\ pc["w1"] = "loop"
    /\ tasks["collect"].status = "running" /\ tasks["collect"].current = 2
    /\ tasks["analyze"].status = "running" /\ tasks["analyze"].current = 1

\* C32 as stated: in every reachable state, overlapping sweeps of the same
\* type included, a task whose status is completed has percent = 100.
C32_CompletedIsHundred ==
    \A t \in TaskTypes : tasks[t].status = "completed" => tasks[t].percent = 100

\* C32: a task whose status is completed has percent = 100, as long as no
\* sweep of its type was started while another one of that type was in
\* flight.
C32_CompletedIsHundredUnlessOverlap ==
    ~clobbered =>
       \A t \in TaskTypes : tasks[t].status = "completed" => tasks[t].percent = 100

\* a sweep that ran alone has analysed its batch and completed
C32_Witness ==
    /\ ~clobbered /\ \A w \in Workers : pc[w] = "idle"
    /\ tasks["analyze"].status = "completed"
    /\ tasks["analyze"].total = 2 /\ tasks["analyze"].current = 2

\* C33 as stated: in every reachable state, overlapping sweeps of the same
\* type included, every task's percent is between 0 and 100 and its current
\* does not exceed its total when total > 0.
C33_PercentAndCurrentInRange ==
    \A t \in TaskTypes :
       /\ tasks[t].percent \in 0..100
       /\ tasks[t].total > 0 => tasks[t].current <= tasks[t].total

\* C33: every task's percent is between 0 and 100 and its current does not
\* exceed its total when total > 0, as long as no sweep of its type was
\* started while another one of that type was in flight.
C33_InRangeUnlessOverlap ==
    ~clobbered =>
       \A t \in TaskTypes :
          /\ tasks[t].percent \in 0..100
          /\ tasks[t].total > 0 => tasks[t].current <= tasks[t].total

\* a sweep that runs alone is half way through its batch of two
C33_Witness ==
    /\ ~clobbered /\ \E w \in Workers : pc[w] = "loop" /\ via[w] = "api" /\ idx[w] = 2
    /\ tasks["analyze"].status = "running"
    /\ tasks["analyze"].total = 2 /\ tasks["analyze"].current = 1
    /\ tasks["analyze"].percent = 50

\* C37: every sweep started through the dashboard (api_collect, api_analyze)
\* eventually ends with its tracker entry in status completed or failed, and
\* once all started workers have finished no entry is in status running.
C37_SweepsEndTerminal ==
    /\ [](csweep.pc # "idle" =>
             <>(csweep.pc = "idle" /\ tasks["collect"].status \in {"completed", "failed"}))
    /\ [](pc["w1"] # "idle" =>
             <>(pc["w1"] = "idle" /\ tasks["analyze"].status \in {"completed", "failed"}))
    /\ []((csweep.pc = "idle" /\ \A w \in Workers : pc[w] = "idle") =>
             \A t \in TaskTypes : tasks[t].status # "running")

\* both kinds of sweep were started and have ended: the analyze sweep
\* completed, the collect thread could not read the store and failed
C37_Witness ==
    /\ csweep.pc = "idle" /\ \A w \in Workers : pc[w] = "idle"
    /\ tasks["collect"].status = "failed"
    /\ tasks["analyze"].status = "completed" /\ tasks["analyze"].total > 0

\* C38: for a post that fails the sentiment filter (or has no text)
\* run_pipeline makes no call of the classifier and no request to the oracle,
\* inserts no lead and sends no notification; in the iteration of a post
\* classify_post is called at most once, and only for a post that passed the
\* filter; a batch holds each post once.
C38_FilteredPostsSkipOracle ==
    [][ (pc["w1"] = "loop" /\ idx'["w1"] = idx["w1"] + 1) =>
          LET rid     == batch["w1"][idx["w1"]]
              content == StrOr(raw_posts[rid].content, raw_posts[rid].title)
              passes  == /\ strip(content) # ""
                         /\ get_sentiment_score(content) <= snap["w1"].sentiment_threshold
          IN
          /\ \A i, j \in DOMAIN batch["w1"] : batch["w1"][i] = batch["w1"][j] => i = j
          /\ Len(trace') = 1 /\ trace'[1].rid = rid
          /\ trace'[1].classify_calls <= 1
          /\ trace'[1].classify_calls = 1 => passes
          /\ trace'[1].oracle_calls > 0 => trace'[1].classify_calls = 1
          /\ ~passes => /\ trace'[1].classify_calls = 0
                        /\ trace'[1].oracle_calls = 0
                        /\ leads' = leads
                        /\ webhook_calls' = webhook_calls
                        /\ webhook_failed' = webhook_failed ]_vars

\* the second post of a batch, one with a positive text, was stored as
\* filtered without a call of the classifier, after the first post of the
\* batch had been classified
C38_Witness ==
    /\ pc["w1"] = "loop" /\ idx["w1"] = 3 /\ Len(trace) = 1
    /\ trace[1].rid = batch["w1"][2]
    /\ raw_posts[trace[1].rid].content = "pos"
    /\ trace[1].classify_calls = 0 /\ trace[1].oracle_calls = 0
    /\ stats["w1"].sentiment_skipped = 1 /\ stats["w1"].sentiment_passed = 1
    /\ \E a \in DOMAIN analyzed_posts : analyzed_posts[a].raw_post_id = trace[1].rid

====
